---- MODULE Spec2Model ----
(***************************************************************************)
(* SunnySips: the shadow-and-sun ranking engine (shadow_engine.py), the    *)
(* window merger / recommendation ranker (recommendations.py), the         *)
(* building loader run at start-up, the outlook pipeline and the cached    *)
(* endpoints (api.py), and the weather provider router (weather_router.py).*)
(*                                                                         *)
(* Lengths are integers in decimetres (dm), angles in whole degrees,       *)
(* sunny_score in tenths of a point, sunny_fraction in thousandths.        *)
(* Python's None is the record None; an optional number is Some(v).        *)
(***************************************************************************)
EXTENDS Integers, Sequences, FiniteSets, TLC

VARIABLES
    pc,                 \* the call about to run ("rank", "merge", "recommend", "load",
                        \* "project", "status", "outlook"), then "done": returned or
                        \* raised; start-up is "load", then "loaded", and the second
                        \* ranking ends in "again"; "calls", "weather" and "serve"
                        \* are services that keep taking calls
    \* compute_sunny_cafes(cafes, buildings, dt, cloud_cover_pct, limit)
    cafes, buildings, dt, cloud_cover_pct, limit,
    results,            \* the returned list
    raised,             \* TRUE when the call ended in an exception
    projected,          \* building indices handed to project_shadow, in call order
    \* merge_windows(hourly_rows, min_duration_min)
    hourly_rows, min_duration_min, windows,
    \* rank_recommendations(windows_by_cafe, preferred_periods, now_utc)
    windows_by_cafe, preferred_periods, now_utc, items,
    clock,              \* what datetime.now(UTC) reads, in minutes
    items_again,        \* what a second call with the same arguments returns
    \* BUILDINGS = _load_buildings(); BUILDING_INDEX = build_building_index(BUILDINGS)
    raw_features,       \* the features of buildings.geojson
    loaded,             \* BUILDINGS
    building_index,     \* BUILDING_INDEX
    query_area, candidates,      \* _query_candidate_indices(BUILDING_INDEX, query_area)
    \* project_shadow(ps_geom, ps_height, azimuth and elevation of ps_sun)
    ps_geom, ps_height, ps_sun, ps_result,
    \* cache_status_from_age(age_hours)
    age_hours, cache_status,
    \* ranking calls in flight over BUILDING_INDEX
    shared_bundle,      \* the index bundle the calls read
    calls,              \* per call: its instant, its place in the loop, its locals
    \* the disk caches and the clock of the service
    service_clock,      \* datetime.now(UTC), in minutes
    ticks,              \* how many times the clock has advanced
    \* get_cloud_cover_series(city_id, start_utc, end_utc)
    provider_cache,     \* .cache/sunnysips_v1/weather, one entry per provider
    cache_before,       \* provider_cache when the last call started
    called_at,          \* the clock reading when the last call started
    fetches,            \* the provider fetches of the last call, in order
    series_result,      \* what the last call returned, or that it raised
    \* cafe_sun_outlook and favorites_recommendations
    response_cache,     \* .cache/sunnysips_v1/outlook and /recommendations
    request,            \* the last request and what it met
    response,           \* the response to it
    \* _build_hourly_for_cafe: per hour, the instant and the forecast cloud cover
    hours

rankVars  == <<cafes, buildings, dt, cloud_cover_pct, limit, results, raised, projected>>
mergeVars == <<hourly_rows, min_duration_min, windows>>
recVars   == <<windows_by_cafe, preferred_periods, now_utc, items, clock, items_again>>
loadVars  == <<raw_features, loaded, building_index, query_area, candidates>>
projVars  == <<ps_geom, ps_height, ps_sun, ps_result>>
statusVars   == <<age_hours, cache_status>>
callVars     == <<shared_bundle, calls>>
clockVars    == <<service_clock, ticks>>
weatherVars  == <<provider_cache, cache_before, called_at, fetches, series_result>>
endpointVars == <<response_cache, request, response>>
pipeVars     == <<hours>>
svcVars      == <<statusVars, callVars, clockVars, weatherVars, endpointVars, pipeVars>>
vars      == <<pc, rankVars, mergeVars, recVars, loadVars, projVars, svcVars>>

----------------------------------------------------------------------------
(* Bounds of the explored inputs *)
MaxCafes == 2
MaxRows  == 4
MaxEntities == 2

----------------------------------------------------------------------------
(* Generic helpers *)
None    == [none |-> TRUE,  val |-> 0]
Some(v) == [none |-> FALSE, val |-> v]

Min(a, b) == IF a <= b THEN a ELSE b
Max(a, b) == IF a >= b THEN a ELSE b

\* floor division that is also defined for a negative numerator
FloorDiv(n, d) == IF n >= 0 THEN n \div d ELSE -((-n + d - 1) \div d)

\* round(n / d) to the nearest integer, ties to even (Python's round)
RoundDiv(n, d) ==
    LET q == FloorDiv(n, d)
        r == n - q * d
    IN  IF 2 * r < d THEN q
        ELSE IF 2 * r > d THEN q + 1
        ELSE IF q % 2 = 0 THEN q ELSE q + 1

\* the element of a one-element set: Only({F(x) : x \in {e}}) is F(e), with e
\* evaluated once however often F uses x
Only(S) == CHOOSE v \in S : TRUE

SeqsUpTo(S, n) == UNION {[1..k -> S] : k \in 0..n}

\* Python slice s[:n] for an integer n (a negative n counts from the end)
SliceTo(s, n) ==
    LET stop == IF n >= 0 THEN Min(n, Len(s)) ELSE Max(0, Len(s) + n)
    IN  SubSeq(s, 1, stop)

----------------------------------------------------------------------------
(* shadow_engine.py: constants *)
MAX_SHADOW_LENGTH == 5000      \* 500.0 m
MIN_SUN_ELEVATION == 2         \* degrees
DEFAULT_LIMIT     == 200       \* limit: int | None = 200
SEAT_OFFSET       == 50        \* offset_meters=5.0
LON_JITTER        == 25        \* 2.5 m
SEARCH_MARGIN     == 30        \* + 3.0 m

(* Sun positions of the instants explored.  pysolar is outside the         *)
(* repository; the table lists (azimuth, elevation) it returns for four    *)
(* instants, with tan(elevation) in thousandths.                           *)
Instants == {"night", "threshold", "low", "noon"}

SunTable ==
    [t \in Instants |->
        CASE t = "night"     -> [azimuth |-> 0,   elevation |-> -10, tan_milli |-> -176]
          [] t = "threshold" -> [azimuth |-> 90,  elevation |-> 2,   tan_milli |-> 35]
          [] t = "low"       -> [azimuth |-> 90,  elevation |-> 3,   tan_milli |-> 52]
          [] t = "noon"      -> [azimuth |-> 180, elevation |-> 45,  tan_milli |-> 1000]]

get_sun_position(t) == SunTable[t]

\* sin and cos of a north-clockwise azimuth that is a multiple of 90 degrees
SinDeg(a) == CASE a = 0 -> 0 [] a = 90 -> 1 [] a = 180 -> 0  [] a = 270 -> -1
CosDeg(a) == CASE a = 0 -> 1 [] a = 90 -> 0 [] a = 180 -> -1 [] a = 270 -> 0

_azimuth_to_vector(azimuth_deg, length) ==
    [dx |-> SinDeg(azimuth_deg) * length, dy |-> CosDeg(azimuth_deg) * length]

----------------------------------------------------------------------------
(* Geometry: a polygon is an axis-parallel rectangle [x0, y0, x1, y1]; a   *)
(* polygon that is not valid carries what make_valid turns it into: a      *)
(* list of polygons, empty when the repair is a line or a point.           *)
Rect(x0, y0, x1, y1) == [x0 |-> x0, y0 |-> y0, x1 |-> x1, y1 |-> y1]
Area(r) == (r.x1 - r.x0) * (r.y1 - r.y0)

ValidPoly(r)        == [ring |-> r, is_valid |-> TRUE,  repaired |-> <<>>]
InvalidPoly(r, rep) == [ring |-> r, is_valid |-> FALSE, repaired |-> rep]

Polygon(p)       == [geom_type |-> "Polygon",      geoms |-> <<p>>]
MultiPolygon(ps) == [geom_type |-> "MultiPolygon", geoms |-> ps]
LineString       == [geom_type |-> "LineString",   geoms |-> <<>>]
EmptyPolygon     == [geom_type |-> "Polygon",      geoms |-> <<>>]

IsEmptyGeom(g) == g.geoms = <<>>

_iter_polygons(geom) ==
    IF geom.geom_type \in {"Polygon", "MultiPolygon"} THEN geom.geoms ELSE <<>>

MinOf(S) == CHOOSE v \in S : \A w \in S : v <= w
MaxOf(S) == CHOOSE v \in S : \A w \in S : v >= w

\* bounding box of a geometry with at least one polygon
BBox(geom) ==
    LET R == {geom.geoms[i].ring : i \in DOMAIN geom.geoms}
    IN  Rect(MinOf({r.x0 : r \in R}), MinOf({r.y0 : r \in R}),
             MaxOf({r.x1 : r \in R}), MaxOf({r.y1 : r \in R}))

RectsIntersect(a, b) ==
    a.x0 <= b.x1 /\ b.x0 <= a.x1 /\ a.y0 <= b.y1 /\ b.y0 <= a.y1

RectCovers(r, p) == r.x0 <= p.x /\ p.x <= r.x1 /\ r.y0 <= p.y /\ p.y <= r.y1

----------------------------------------------------------------------------
(* shadow_engine.py: the shadow projector *)

\* what a call returns: None, a shadow (a union of rectangles), or an exception
NoShadow        == [kind |-> "none",  rects |-> {}]
Shadow(rects)   == [kind |-> "poly",  rects |-> rects]
RaisedShadow    == [kind |-> "raise", rects |-> {}]

\* the footprint swept along (dx, dy): footprint, translated footprint and the
\* quadrilaterals between their edges; for an axis-parallel displacement of a
\* rectangle their union is the rectangle spanning both
Sweep(r, dx, dy) ==
    Rect(Min(r.x0, r.x0 + dx), Min(r.y0, r.y0 + dy),
         Max(r.x1, r.x1 + dx), Max(r.y1, r.y1 + dy))

LargestArea(rs) ==
    rs[CHOOSE i \in DOMAIN rs : \A j \in DOMAIN rs :
           Area(rs[i]) > Area(rs[j]) \/ (Area(rs[i]) = Area(rs[j]) /\ i <= j)]

_shadow_for_polygon(poly, dx, dy) ==
    IF ~poly.is_valid /\ poly.repaired = <<>>
    THEN NoShadow
    ELSE LET ring == IF poly.is_valid THEN poly.ring ELSE LargestArea(poly.repaired)
         IN  Shadow({Sweep(ring, dx, dy)})

\* the loop of project_shadow over the polygons of the building: `shadow.is_empty`
\* on a None shadow is an AttributeError
RECURSIVE ShadowPieces(_, _, _, _)
ShadowPieces(polys, dx, dy, pieces) ==
    IF polys = <<>> THEN Shadow(pieces)
    ELSE LET shadow == _shadow_for_polygon(Head(polys), dx, dy)
         IN  IF shadow.kind = "none" THEN RaisedShadow
             ELSE ShadowPieces(Tail(polys), dx, dy, pieces \cup shadow.rects)

\* a projector that still casts a shadow with the sun at the threshold
ProjectShadowStrict(building_geom, height_m, sun) ==
    IF sun.elevation < MIN_SUN_ELEVATION \/ height_m <= 0 THEN NoShadow
    ELSE IF sun.tan_milli <= 0 THEN NoShadow
    ELSE LET shadow_length  == Min(MAX_SHADOW_LENGTH, (height_m * 1000) \div sun.tan_milli)
             shadow_azimuth == (sun.azimuth + 180) % 360
             v              == _azimuth_to_vector(shadow_azimuth, shadow_length)
             out            == ShadowPieces(_iter_polygons(building_geom), v.dx, v.dy, {})
         IN  IF shadow_length <= 0 THEN NoShadow
             ELSE IF out.kind = "raise" THEN RaisedShadow
             ELSE IF out.rects = {} THEN NoShadow
             ELSE out

project_shadow(building_geom, height_m, sun) ==
    IF sun.elevation <= MIN_SUN_ELEVATION \/ height_m <= 0 THEN NoShadow
    ELSE IF sun.tan_milli <= 0 THEN NoShadow
    ELSE LET shadow_length  == Min(MAX_SHADOW_LENGTH, (height_m * 1000) \div sun.tan_milli)
             shadow_azimuth == (sun.azimuth + 180) % 360
             v              == _azimuth_to_vector(shadow_azimuth, shadow_length)
             out            == ShadowPieces(_iter_polygons(building_geom), v.dx, v.dy, {})
         IN  IF shadow_length <= 0 THEN NoShadow
             ELSE IF out.kind = "raise" THEN RaisedShadow
             ELSE IF out.rects = {} THEN NoShadow
             ELSE out

Covers(shadow, p) == \E r \in shadow.rects : RectCovers(r, p)

----------------------------------------------------------------------------
(* shadow_engine.py: the building index *)

Building(geom, h) == [geom_utm |-> geom, height_m |-> h]

Indexable(item) ==
    /\ ~IsEmptyGeom(item.geom_utm)
    /\ item.geom_utm.geom_type \in {"Polygon", "MultiPolygon"}
    /\ item.height_m > 0

build_building_index(building_items) ==
    LET records == SelectSeq(building_items, Indexable)
    IN  [records      |-> records,
         max_height_m |-> IF records = <<>> THEN 200
                          ELSE MaxOf({records[i].height_m : i \in DOMAIN records})]

\* the indices whose bounding box meets the bounding box of the search area,
\* in ascending order
RECURSIVE IndicesFrom(_, _, _)
IndicesFrom(records, area, i) ==
    IF i > Len(records) THEN <<>>
    ELSE IF RectsIntersect(BBox(records[i].geom_utm), area)
         THEN <<i>> \o IndicesFrom(records, area, i + 1)
         ELSE IndicesFrom(records, area, i + 1)

_query_candidate_indices(index_bundle, search_area) ==
    IF index_bundle.records = <<>> THEN <<>>
    ELSE IndicesFrom(index_bundle.records, search_area, 1)

----------------------------------------------------------------------------
(* shadow_engine.py: the ranking engine *)

\* a cafe feature; coordinates is the GeoJSON list, <<None, None>> standing for
\* a record without geometry
Cafe(osm_id, name, coordinates) ==
    [osm_id |-> osm_id, name |-> name, coordinates |-> coordinates]

\* names in lexicographic order (Python compares str by code point)
Names == <<"Alpha", "Beta", "Gamma", "Nowhere", "Short">>
NameRank(n) == CHOOSE i \in DOMAIN Names : Names[i] = n

\* the limit argument: left out, None, or an int
LimitUnset  == [kind |-> "unset", n |-> 0]
LimitNone   == [kind |-> "none",  n |-> 0]
LimitInt(n) == [kind |-> "int",   n |-> n]

EffectiveLimit(lim) == IF lim.kind = "unset" THEN LimitInt(DEFAULT_LIMIT) ELSE lim

TruncateOneShort(rows, lim) ==
    IF lim.kind = "int" /\ lim.n # 0 THEN SliceTo(rows, lim.n - 1) ELSE rows

\* `if limit` / `results[:limit] if limit else results`
Truncate(rows, lim) ==
    IF lim.kind = "int" /\ lim.n # 0 THEN SliceTo(rows, lim.n) ELSE rows

\* a factor taken from the cloud cover as it is given
CloudFactorUnclamped(c) == 100 - c

\* the share of the sky that is covered
CloudShare(c) == Max(0, Min(100, c))

_cloud_factor(c) == 100 - Max(0, Min(100, c))        \* in hundredths

estimate_seating_point(p) == [x |-> p.x, y |-> p.y - SEAT_OFFSET]

_candidate_seating_points(p) ==
    LET base == estimate_seating_point(p)
    IN  << base,
           [x |-> base.x - LON_JITTER, y |-> base.y],
           [x |-> base.x + LON_JITTER, y |-> base.y] >>

\* a search area that is the sample point alone
SearchAreaPoint(seat, radius) == Rect(seat.x, seat.y, seat.x, seat.y)

SearchArea(seat, radius) ==
    Rect(seat.x - radius, seat.y - radius, seat.x + radius, seat.y + radius)

IsLowSunStrict(sun) == sun.elevation < MIN_SUN_ELEVATION

IsLowSun(sun) == sun.elevation <= MIN_SUN_ELEVATION

\* the record of a cafe in the branch taken when the sun is at or below the threshold
LowSunRow(feature, sun, c) ==
    [osm_id             |-> feature.osm_id,
     name               |-> feature.name,
     lon                |-> feature.coordinates[1],
     lat                |-> feature.coordinates[2],
     sunny_score        |-> 0,
     sunny_fraction     |-> 0,
     in_shadow          |-> TRUE,
     sun_elevation_deg  |-> sun.elevation,
     sun_azimuth_deg    |-> sun.azimuth,
     cloud_cover_pct    |-> c]

\* a record that is in shadow as soon as one sample point is shaded
SunRowAnyShaded(feature, sun, c, sunny_count, n_points) ==
    [osm_id             |-> feature.osm_id,
     name               |-> feature.name,
     lon                |-> feature.coordinates[1],
     lat                |-> feature.coordinates[2],
     sunny_score        |-> RoundDiv(10 * sunny_count * _cloud_factor(c), Max(1, n_points)),
     sunny_fraction     |-> RoundDiv(1000 * sunny_count, Max(1, n_points)),
     in_shadow          |-> sunny_count < n_points,
     sun_elevation_deg  |-> sun.elevation,
     sun_azimuth_deg    |-> sun.azimuth,
     cloud_cover_pct    |-> c]

SunRow(feature, sun, c, sunny_count, n_points) ==
    [osm_id             |-> feature.osm_id,
     name               |-> feature.name,
     lon                |-> feature.coordinates[1],
     lat                |-> feature.coordinates[2],
     sunny_score        |-> RoundDiv(10 * sunny_count * _cloud_factor(c), Max(1, n_points)),
     sunny_fraction     |-> RoundDiv(1000 * sunny_count, Max(1, n_points)),
     in_shadow          |-> sunny_count = 0,
     sun_elevation_deg  |-> sun.elevation,
     sun_azimuth_deg    |-> sun.azimuth,
     cloud_cover_pct    |-> c]

\* the evaluation state threaded through the loops of one call
NewEval == [shadow_cache |-> <<>>, projected |-> <<>>, raised |-> FALSE, results |-> <<>>]

\* shadow_cache lookup, or project_shadow and the cache filled in
ShadowOf(records, sun, idx, ev) ==
    IF idx \in DOMAIN ev.shadow_cache THEN ev.shadow_cache[idx]
    ELSE project_shadow(records[idx].geom_utm, records[idx].height_m, sun)

\* an evaluation that keeps no projected shadow
AfterShadowUncached(idx, ev, shadow) ==
    IF shadow.kind = "raise"
    THEN [ev EXCEPT !.projected = Append(@, idx), !.raised = TRUE]
    ELSE [ev EXCEPT !.projected = Append(@, idx)]

AfterShadow(idx, ev, shadow) ==
    IF idx \in DOMAIN ev.shadow_cache THEN ev
    ELSE IF shadow.kind = "raise"
         THEN [ev EXCEPT !.projected = Append(@, idx), !.raised = TRUE]
         ELSE [ev EXCEPT !.projected = Append(@, idx),
                         !.shadow_cache = @ @@ (idx :> shadow)]

\* for idx in candidate_indices: ... (first covering shadow breaks the loop)
RECURSIVE ScanCandidates(_, _, _, _, _)
ScanCandidates(records, sun, seat, cands, ev) ==
    IF cands = <<>> THEN [shaded |-> FALSE, ev |-> ev]
    ELSE Only({
        Only({ IF ev2.raised THEN [shaded |-> FALSE, ev |-> ev2]
               ELSE IF shadow.kind = "poly" /\ Covers(shadow, seat)
                    THEN [shaded |-> TRUE, ev |-> ev2]
                    ELSE ScanCandidates(records, sun, seat, Tail(cands), ev2)
               : ev2 \in {AfterShadow(Head(cands), ev, shadow)} })
        : shadow \in {ShadowOf(records, sun, Head(cands), ev)} })

\* for seat_lon, seat_lat in seating_points_lonlat: ...
RECURSIVE ScanSeats(_, _, _, _, _)
ScanSeats(index_bundle, sun, seats, radius, acc) ==
    IF seats = <<>> \/ acc.ev.raised THEN acc
    ELSE Only({
        Only({ ScanSeats(index_bundle, sun, Tail(seats), radius, acc2)
               : acc2 \in {[sunny_count |-> acc.sunny_count
                                + (IF r.shaded \/ r.ev.raised THEN 0 ELSE 1),
                            ev |-> r.ev]} })
        : r \in {ScanCandidates(index_bundle.records, sun, Head(seats),
                     _query_candidate_indices(index_bundle, SearchArea(Head(seats), radius)),
                     acc.ev)} })

\* the body of `for feature in cafes:` for a cafe with both coordinates
RankCafe(feature, index_bundle, sun, c, radius, ev) ==
    LET coords == feature.coordinates
        seats  == _candidate_seating_points([x |-> coords[1].val, y |-> coords[2].val])
    IN  Only({ IF acc.ev.raised THEN acc.ev
               ELSE [acc.ev EXCEPT !.results =
                        Append(@, SunRow(feature, sun, c, acc.sunny_count, Len(seats)))]
               : acc \in {ScanSeats(index_bundle, sun, seats, radius,
                                    [sunny_count |-> 0, ev |-> ev])} })

\* one pass of `for feature in cafes:` when the sun is above the threshold
CafeStep(feature, index_bundle, sun, c, radius, ev) ==
    LET coords == feature.coordinates
    IN  IF ev.raised THEN ev
        ELSE IF Len(coords) # 2
             THEN [ev EXCEPT !.raised = TRUE]              \* lon, lat = coords
             ELSE IF coords[1].none \/ coords[2].none THEN ev
                  ELSE RankCafe(feature, index_bundle, sun, c, radius, ev)

\* the passes for features[lo..hi] in order, from the state ev; the range is
\* split in two so that the depth of evaluation grows with its logarithm
RECURSIVE ScanCafes(_, _, _, _, _, _, _, _)
ScanCafes(features, lo, hi, index_bundle, sun, c, radius, ev) ==
    IF lo > hi THEN ev
    ELSE IF lo = hi THEN CafeStep(features[lo], index_bundle, sun, c, radius, ev)
    ELSE Only({ ScanCafes(features, ((lo + hi) \div 2) + 1, hi, index_bundle, sun, c,
                          radius, ev2)
                : ev2 \in {ScanCafes(features, lo, (lo + hi) \div 2, index_bundle, sun, c,
                                     radius, ev)} })

\* one pass of `for feature in cafes:` when the sun is at or below the threshold
LowSunStep(feature, sun, c, ev) ==
    IF ev.raised THEN ev
    ELSE IF Len(feature.coordinates) < 2
         THEN [ev EXCEPT !.raised = TRUE]                  \* coords[1]
         ELSE [ev EXCEPT !.results = Append(@, LowSunRow(feature, sun, c))]

RECURSIVE ScanCafesLowSun(_, _, _, _, _, _)
ScanCafesLowSun(features, lo, hi, sun, c, ev) ==
    IF lo > hi THEN ev
    ELSE IF lo = hi THEN LowSunStep(features[lo], sun, c, ev)
    ELSE Only({ ScanCafesLowSun(features, ((lo + hi) \div 2) + 1, hi, sun, c, ev2)
                : ev2 \in {ScanCafesLowSun(features, lo, (lo + hi) \div 2, sun, c, ev)} })

\* key=(sunny_score, sunny_fraction, name), reverse=True
KeyLess(a, b) ==
    \/ a.sunny_score < b.sunny_score
    \/ a.sunny_score = b.sunny_score /\ a.sunny_fraction < b.sunny_fraction
    \/ a.sunny_score = b.sunny_score /\ a.sunny_fraction = b.sunny_fraction
         /\ NameRank(a.name) < NameRank(b.name)

\* list.sort(reverse=True) is stable: rows with equal keys keep their order, so
\* a row goes after every row already placed that is not below it
InsertDesc(sorted, row) ==
    LET k == Cardinality({i \in DOMAIN sorted : ~KeyLess(sorted[i], row)})
    IN  SubSeq(sorted, 1, k) \o <<row>> \o SubSeq(sorted, k + 1, Len(sorted))

\* rows[lo..hi] placed one after another into sorted
RECURSIVE SortDesc(_, _, _, _)
SortDesc(rows, lo, hi, sorted) ==
    IF lo > hi THEN sorted
    ELSE IF lo = hi THEN Only({ InsertDesc(placed, rows[lo]) : placed \in {sorted} })
    ELSE Only({ SortDesc(rows, ((lo + hi) \div 2) + 1, hi, placed)
                : placed \in {SortDesc(rows, lo, (lo + hi) \div 2, sorted)} })

\* the loops of compute_sunny_cafes over an index bundle
RankAll(features, index_bundle, sun, c) ==
    IF IsLowSun(sun)
    THEN ScanCafesLowSun(features, 1, Len(features), sun, c, NewEval)
    ELSE LET max_shadow_search ==
                 IF sun.tan_milli > 0
                 THEN Min(MAX_SHADOW_LENGTH,
                          (index_bundle.max_height_m * 1000) \div sun.tan_milli)
                 ELSE MAX_SHADOW_LENGTH
         IN  ScanCafes(features, 1, Len(features), index_bundle, sun, c,
                       max_shadow_search + SEARCH_MARGIN, NewEval)

\* a ranking that reads the first cafe before it looks whether there is one
RankFirstCafe(features, building_items, t, c, lim) ==
    IF features = <<>> THEN [NewEval EXCEPT !.raised = TRUE]
    ELSE Only({ [ev EXCEPT !.results =
                    IF ev.raised THEN <<>>
                    ELSE IF IsLowSun(get_sun_position(t))
                         THEN Truncate(@, EffectiveLimit(lim))
                         ELSE Truncate(SortDesc(ev.results, 1, Len(ev.results), <<>>),
                                       EffectiveLimit(lim))]
                : ev \in { Only({ RankAll(features, index_bundle, get_sun_position(t), c)
                                  : index_bundle \in {build_building_index(building_items)} }) } })

compute_sunny_cafes(features, building_items, t, c, lim) ==
    IF features = <<>> THEN NewEval
    ELSE Only({ [ev EXCEPT !.results =
                    IF ev.raised THEN <<>>
                    ELSE IF IsLowSun(get_sun_position(t))
                         THEN Truncate(@, EffectiveLimit(lim))
                         ELSE Truncate(SortDesc(ev.results, 1, Len(ev.results), <<>>),
                                       EffectiveLimit(lim))]
                : ev \in { Only({ RankAll(features, index_bundle, get_sun_position(t), c)
                                  : index_bundle \in {build_building_index(building_items)} }) } })

----------------------------------------------------------------------------
(* The inputs explored for the ranking engine *)

CafeAlpha   == Cafe(1, "Alpha",   <<Some(0), Some(0)>>)
CafeBeta    == Cafe(2, "Beta",    <<Some(0), Some(0)>>)
CafeGamma   == Cafe(3, "Gamma",   <<Some(1000), Some(0)>>)
CafeNowhere == Cafe(4, "Nowhere", <<None, None>>)          \* no longitude, no latitude
CafeShort   == Cafe(5, "Short",   <<Some(0)>>)             \* a longitude only

CafePool == {CafeAlpha, CafeBeta, CafeGamma, CafeNowhere, CafeShort}

\* a 15 m block south of Alpha and Beta: at noon it shades two of their three points
SouthBlock == Building(Polygon(ValidPoly(Rect(-30, -200, 10, -100))), 150)
\* a 30 m tower east of them: at low sun its capped shadow covers all three points
EastTower  == Building(Polygon(ValidPoly(Rect(100, -60, 200, -40))), 300)
\* a footprint whose repair is a line
Sliver     == Building(Polygon(InvalidPoly(Rect(-20, -120, 20, -120), <<>>)), 100)
\* a bow-tie footprint whose repair is two polygons
BowTie     == Building(Polygon(InvalidPoly(Rect(-30, -200, 30, -100),
                  <<Rect(-30, -200, 0, -100), Rect(0, -150, 30, -100)>>)), 150)
\* two parts, the second one a sliver
TwoParts   == Building(MultiPolygon(<<ValidPoly(Rect(-30, -200, 10, -100)),
                                      InvalidPoly(Rect(40, -120, 60, -120), <<>>)>>), 150)
Flat       == Building(Polygon(ValidPoly(Rect(-30, -200, 30, -100))), 0)
Fence      == Building(LineString, 20)

BuildingLists ==
    { <<>>, <<SouthBlock>>, <<EastTower, SouthBlock>>, <<Flat, BowTie, Fence>>,
      <<Sliver>>, <<EastTower, TwoParts>> }

Clouds == {-20, 0, 40, 100, 130}
Limits == {LimitUnset, LimitNone, LimitInt(0), LimitInt(1), LimitInt(2), LimitInt(-1)}

\* one more cafe than the default limit
LargeBatch == [i \in 1..(DEFAULT_LIMIT + 1) |-> IF i % 2 = 0 THEN CafeAlpha ELSE CafeGamma]

RankIdle ==
    /\ cafes = <<>> /\ buildings = <<>> /\ dt = "noon" /\ cloud_cover_pct = 0
    /\ limit = LimitUnset
    /\ results = <<>> /\ raised = FALSE /\ projected = <<>>

MergeIdle == hourly_rows = <<>> /\ min_duration_min = 0 /\ windows = <<>>

RecIdle ==
    /\ windows_by_cafe = <<>> /\ preferred_periods = <<>> /\ now_utc = None
    /\ items = <<>> /\ clock = 0 /\ items_again = <<>>

LoadIdle ==
    /\ raw_features = <<>> /\ loaded = <<>>
    /\ building_index = build_building_index(<<>>)
    /\ query_area = Rect(0, 0, 0, 0) /\ candidates = <<>>

ProjIdle ==
    /\ ps_geom = EmptyPolygon /\ ps_height = 0 /\ ps_sun = get_sun_position("noon")
    /\ ps_result = NoShadow

StatusIdle   == age_hours = None /\ cache_status = "unavailable"
CallsIdle    == shared_bundle = build_building_index(<<>>) /\ calls = <<>>
ClockIdle    == service_clock = 0 /\ ticks = 0
WeatherIdle  ==
    /\ provider_cache = <<>> /\ cache_before = <<>> /\ called_at = 0
    /\ fetches = <<>> /\ series_result = None
EndpointIdle == response_cache = <<>> /\ request = None /\ response = None
PipeIdle     == hours = <<>>
SvcIdle ==
    StatusIdle /\ CallsIdle /\ ClockIdle /\ WeatherIdle /\ EndpointIdle /\ PipeIdle

Init ==
    /\ pc = "rank"
    /\ \/ /\ cafes \in SeqsUpTo(CafePool, MaxCafes)
          /\ buildings \in BuildingLists
          /\ dt \in Instants
          /\ cloud_cover_pct \in Clouds
          /\ limit \in Limits
       \/ /\ cafes = LargeBatch
          /\ buildings = <<SouthBlock>>
          /\ dt \in {"night", "noon"}
          /\ cloud_cover_pct = 0
          /\ limit \in {LimitUnset, LimitNone}
    /\ results = <<>> /\ raised = FALSE /\ projected = <<>>
    /\ MergeIdle /\ RecIdle /\ LoadIdle /\ ProjIdle /\ SvcIdle

ComputeSunnyCafes ==
    /\ pc = "rank"
    /\ \E ev \in {compute_sunny_cafes(cafes, buildings, dt, cloud_cover_pct, limit)} :
           /\ results'   = ev.results
           /\ raised'    = ev.raised
           /\ projected' = ev.projected
    /\ pc' = "done"
    /\ UNCHANGED <<cafes, buildings, dt, cloud_cover_pct, limit, mergeVars, recVars,
                   loadVars, projVars, svcVars>>

Next == ComputeSunnyCafes

Spec == Init /\ [][Next]_vars

----------------------------------------------------------------------------
(* The inputs explored for the shadow projector on its own *)

Azimuths   == {0, 90, 180, 270}
Elevations == {-10, 0, 2, 3, 45}
\* tan(elevation) in thousandths
TanMilli(e) ==
    CASE e = -10 -> -176 [] e = 0 -> 0 [] e = 2 -> 35 [] e = 3 -> 52 [] e = 45 -> 1000

SunAt(a, e) == [azimuth |-> a, elevation |-> e, tan_milli |-> TanMilli(e)]

Footprints ==
    {b.geom_utm : b \in {SouthBlock, EastTower, Sliver, BowTie, TwoParts, Fence}}
        \cup {EmptyPolygon}

Heights == {-50, 0, 150, 300}

InitProject ==
    /\ pc = "project"
    /\ ps_geom \in Footprints
    /\ ps_height \in Heights
    /\ ps_sun \in {SunAt(a, e) : a \in Azimuths, e \in Elevations}
    /\ ps_result = NoShadow
    /\ RankIdle /\ MergeIdle /\ RecIdle /\ LoadIdle /\ SvcIdle

ProjectShadow ==
    /\ pc = "project"
    /\ ps_result' = project_shadow(ps_geom, ps_height, ps_sun)
    /\ pc' = "done"
    /\ UNCHANGED <<ps_geom, ps_height, ps_sun, rankVars, mergeVars, recVars, loadVars, svcVars>>

NextProject == ProjectShadow

SpecProject == InitProject /\ [][NextProject]_vars

\* C19: project_shadow returns None whenever the sun elevation is at or below
\* 2 degrees or the height is at or below 0, for every footprint and azimuth.
C19_NoneBelowThreshold ==
    (pc = "done" /\ (ps_sun.elevation <= 2 \/ ps_height <= 0)) => ps_result = NoShadow

\* above the threshold the same building casts a shadow
C19_ShadowAboveThreshold ==
    (pc = "done" /\ ps_sun.elevation > 2 /\ ps_height > 0 /\ ps_geom = SouthBlock.geom_utm)
        => ps_result.kind = "poly"

C19_Witness ==
    /\ pc = "done"
    /\ ps_sun.elevation = 2 /\ ps_sun.azimuth = 270
    /\ ps_height = 300 /\ ps_geom = SouthBlock.geom_utm
    /\ ps_result = NoShadow

----------------------------------------------------------------------------
(* Claims about the ranking engine *)

Returned      == pc = "done" /\ cafes # <<>>
SunOfCall     == get_sun_position(dt)
SunIsLow      == SunOfCall.elevation <= MIN_SUN_ELEVATION
HasCoords(f)  == Len(f.coordinates) = 2 /\ ~f.coordinates[1].none /\ ~f.coordinates[2].none
TwoCoords     == \A i \in DOMAIN cafes : Len(cafes[i].coordinates) = 2
Degenerate(p) == ~p.is_valid /\ p.repaired = <<>>
HasDegenerate(b) ==
    Indexable(b) /\ \E i \in DOMAIN b.geom_utm.geoms : Degenerate(b.geom_utm.geoms[i])
SoundBuildings == \A i \in DOMAIN buildings : ~HasDegenerate(buildings[i])
Unlimited     == compute_sunny_cafes(cafes, buildings, dt, cloud_cover_pct, LimitNone).results

\* C1: every returned list is sorted in descending order of (sunny_score,
\* sunny_fraction, name), whatever the sun elevation: no record is followed by
\* one with a greater key.
C1_SortedDescending ==
    (Returned /\ ~raised) =>
        \A i, j \in DOMAIN results : i < j => ~KeyLess(results[i], results[j])

\* C1, above the threshold only (the branch that sorts).
C1_SortedAboveThreshold ==
    (Returned /\ ~raised /\ ~SunIsLow) =>
        \A i, j \in DOMAIN results : i < j => ~KeyLess(results[i], results[j])

\* C2: with the sun at or below the threshold every returned record has
\* sunny_score 0, sunny_fraction 0 and in_shadow true, the records are the cafes of
\* the batch in order (cut to the limit), and project_shadow is never called,
\* for every building list and cloud cover.
C2_LowSunAllShaded ==
    (Returned /\ SunIsLow) =>
        /\ projected = <<>>
        /\ TwoCoords => ~raised
        /\ ~raised =>
             /\ \A i \in DOMAIN results :
                    /\ results[i].sunny_score = 0
                    /\ results[i].sunny_fraction = 0
                    /\ results[i].in_shadow
                    /\ results[i].osm_id = cafes[i].osm_id
             /\ Len(results) <= Len(cafes)
             /\ limit.kind = "none" => Len(results) = Len(cafes)
             /\ (limit.kind = "int" /\ limit.n >= 1) =>
                    Len(results) = Min(limit.n, Len(cafes))

C2_Witness ==
    /\ Returned /\ SunIsLow /\ ~raised
    /\ SunOfCall.elevation = MIN_SUN_ELEVATION
    /\ Len(results) = 2
    /\ buildings = <<EastTower, SouthBlock>>
    /\ cloud_cover_pct = 0

\* the number of sunny sample points (of three) behind a returned sunny_fraction
SunnyPoints(row) == CHOOSE k \in 0..3 : 3 * row.sunny_fraction - 1000 * k \in -1..1
Clamped(c) == IF c < 0 THEN 0 ELSE IF c > 100 THEN 100 ELSE c
Scores(rows) == [i \in DOMAIN rows |-> rows[i].sunny_score]

\* C15: with the sun above the threshold, sunny_score is 100 x sunny_fraction x
\* (1 - cloud_cover/100) rounded to one decimal: 0 at a cloud cover of 100,
\* 100 x sunny_fraction at a cloud cover of 0, and 100 at a cloud cover of 0 when
\* there is no building, every sample point then being in the sun.
C15_CloudAttenuation ==
    (Returned /\ ~raised /\ ~SunIsLow /\ cloud_cover_pct \in 0..100) =>
        \A i \in DOMAIN results :
            /\ 3 * results[i].sunny_score
                  - 10 * SunnyPoints(results[i]) * (100 - cloud_cover_pct) \in -1..1
            /\ cloud_cover_pct = 100 => results[i].sunny_score = 0
            /\ cloud_cover_pct = 0 => results[i].sunny_score = results[i].sunny_fraction
            /\ buildings = <<>> => results[i].sunny_fraction = 1000

C15_Witness ==
    /\ Returned /\ ~raised /\ dt = "noon"
    /\ buildings = <<>> /\ cloud_cover_pct = 100
    /\ Len(results) = 2
    /\ \A i \in DOMAIN results :
           results[i].sunny_fraction = 1000 /\ results[i].sunny_score = 0

\* C16: a cloud cover below 0 or above 100 raises nothing, and the scores
\* returned lie in [0, 100] and are those of the cloud cover clamped to [0, 100].
C16_CloudClamped ==
    Returned =>
        LET ev == compute_sunny_cafes(cafes, buildings, dt, Clamped(cloud_cover_pct), limit)
        IN  /\ raised = ev.raised
            /\ Scores(results) = Scores(ev.results)
            /\ \A i \in DOMAIN results : results[i].sunny_score \in 0..1000

C16_Witness ==
    /\ Returned /\ ~raised /\ dt = "noon"
    /\ cloud_cover_pct = -20
    /\ Len(results) = 2
    /\ results[1].sunny_score = 1000 /\ results[2].sunny_score = 333

\* C8 as stated: a limit that is None or left out returns the full list.
C8_UnsetMeansUnlimited ==
    (Returned /\ ~raised /\ limit.kind \in {"none", "unset"}) => results = Unlimited

\* C8, amended: a positive limit returns the first `limit` records of the
\* unlimited result, a limit of None (or 0) returns all of it, and a limit left
\* out is the default of 200 records.
C8_LimitTruncates ==
    (Returned /\ ~raised) =>
        /\ (limit.kind = "int" /\ limit.n >= 1) =>
               results = SubSeq(Unlimited, 1, Min(limit.n, Len(Unlimited)))
        /\ (limit.kind = "none" \/ (limit.kind = "int" /\ limit.n = 0)) =>
               results = Unlimited
        /\ limit.kind = "unset" =>
               results = SubSeq(Unlimited, 1, Min(DEFAULT_LIMIT, Len(Unlimited)))

C8_Witness ==
    /\ Returned /\ ~raised
    /\ limit = LimitUnset
    /\ Len(Unlimited) = DEFAULT_LIMIT + 1 /\ Len(results) = DEFAULT_LIMIT
    /\ ~SunIsLow

\* C9: a building polygon whose repair is empty or not polygonal is skipped: the
\* ranking call over well-formed cafes does not raise, and returns what it
\* returns when that polygon is left out of the building list.
StripPolys(g) == [g EXCEPT !.geoms = SelectSeq(@, LAMBDA p : ~Degenerate(p))]
StripItems(bs) == [i \in DOMAIN bs |-> [bs[i] EXCEPT !.geom_utm = StripPolys(@)]]

C9_DegenerateSkipped ==
    (Returned /\ TwoCoords) =>
        /\ ~raised
        /\ results = compute_sunny_cafes(cafes, StripItems(buildings), dt,
                                         cloud_cover_pct, limit).results

\* C10: a cafe without a longitude or a latitude is skipped: the call does not
\* raise, no returned record lacks a coordinate, and with no limit every cafe
\* that has both is returned.
C10_MalformedCafeSkipped ==
    (Returned /\ SoundBuildings) =>
        /\ ~raised
        /\ \A i \in DOMAIN results : ~results[i].lon.none /\ ~results[i].lat.none
        /\ limit.kind = "none" =>
               Len(results) = Cardinality({i \in DOMAIN cafes : HasCoords(cafes[i])})

----------------------------------------------------------------------------
(* Claims about the shadow cache, the sample points and the prefilter *)

Range(s)        == {s[i] : i \in DOMAIN s}
IndexOfCall     == build_building_index(buildings)
RadiusOfCall    ==
    (IF SunOfCall.tan_milli > 0
     THEN Min(MAX_SHADOW_LENGTH, (IndexOfCall.max_height_m * 1000) \div SunOfCall.tan_milli)
     ELSE MAX_SHADOW_LENGTH) + SEARCH_MARGIN
\* the shadow of an indexed building, projected anew
Projection(idx) ==
    project_shadow(IndexOfCall.records[idx].geom_utm, IndexOfCall.records[idx].height_m,
                   SunOfCall)
Casts(idx, seat) == Projection(idx).kind = "poly" /\ Covers(Projection(idx), seat)
CandidatesAt(seat) == _query_candidate_indices(IndexOfCall, SearchArea(seat, RadiusOfCall))
SeatsAt(lon, lat)  == _candidate_seating_points([x |-> lon.val, y |-> lat.val])
SeatsOf(row)       == SeatsAt(row.lon, row.lat)
ShadedBy(seat, idxs) == \E k \in idxs : Casts(k, seat)

\* the candidates of a sample point are tried in order up to the first whose
\* shadow covers it
FirstCover(seat) ==
    LET c == CandidatesAt(seat)
        P == {p \in DOMAIN c : Casts(c[p], seat)}
    IN  IF P = {} THEN Len(c) + 1 ELSE MinOf(P)
SeatRaises(seat) ==
    LET c == CandidatesAt(seat)
    IN  \E q \in DOMAIN c : q < FirstCover(seat) /\ Projection(c[q]).kind = "raise"
RecomputeRaises ==
    \E i \in DOMAIN cafes :
        \/ Len(cafes[i].coordinates) # 2
        \/ /\ HasCoords(cafes[i])
           /\ \E k \in 1..3 :
                  SeatRaises(SeatsAt(cafes[i].coordinates[1], cafes[i].coordinates[2])[k])
RecomputedRow(f) ==
    LET seats == SeatsAt(f.coordinates[1], f.coordinates[2])
        sunny == {k \in DOMAIN seats : ~ShadedBy(seats[k], Range(CandidatesAt(seats[k])))}
    IN  SunRow(f, SunOfCall, cloud_cover_pct, Cardinality(sunny), Len(seats))
RecomputedRows ==
    LET with == SelectSeq(cafes, HasCoords)
    IN  [i \in DOMAIN with |-> RecomputedRow(with[i])]
Recomputed ==
    Truncate(SortDesc(RecomputedRows, 1, Len(RecomputedRows), <<>>), EffectiveLimit(limit))

\* C22: within one ranking call no building is handed to project_shadow twice
\* (a later sample point or cafe takes the cached value, a cached None
\* included), and the call returns, or raises, exactly as it does when every
\* shadow is projected anew at every use.
C22_ProjectedOnceSameRanking ==
    Returned =>
        /\ \A i, j \in DOMAIN projected : i # j => projected[i] # projected[j]
        /\ ~SunIsLow =>
             /\ raised <=> RecomputeRaises
             /\ ~raised => results = Recomputed

\* two cafes whose sample points share candidates, one of them casting no
\* shadow (a cached None), each projected once
C22_Witness ==
    /\ Returned /\ ~raised /\ ~SunIsLow
    /\ buildings = <<Flat, BowTie, Fence>> \/ buildings = <<EastTower, SouthBlock>>
    /\ cafes = <<CafeAlpha, CafeBeta>>
    /\ Len(projected) >= 1
    /\ Len(results) = 2
    /\ \E i \in DOMAIN results : results[i].sunny_fraction < 1000

\* C24: with the sun above the threshold every returned record stands for
\* exactly three sample points, its sunny_fraction is the number of them that no
\* candidate shadow covers divided by three (to three decimals), and in_shadow is
\* true exactly when sunny_fraction is 0, that is when all three are shaded.
C24_ThreePointsFraction ==
    (Returned /\ ~raised /\ ~SunIsLow) =>
        \A i \in DOMAIN results :
            LET seats == SeatsOf(results[i])
                sunny == {k \in DOMAIN seats :
                             ~ShadedBy(seats[k], Range(CandidatesAt(seats[k])))}
            IN  /\ Len(seats) = 3
                /\ Cardinality(Range(seats)) = 3
                /\ 3 * results[i].sunny_fraction - 1000 * Cardinality(sunny) \in -1..1
                /\ results[i].in_shadow <=> results[i].sunny_fraction = 0
                /\ results[i].in_shadow <=> sunny = {}

\* one sample point of three in the sun: not in shadow
C24_Witness ==
    /\ Returned /\ ~raised /\ ~SunIsLow
    /\ \E i \in DOMAIN results :
           results[i].sunny_fraction = 333 /\ ~results[i].in_shadow
    /\ \E i \in DOMAIN results :
           results[i].sunny_fraction = 1000 /\ ~results[i].in_shadow

\* C25: the prefilter loses no shading building: for every sample point of a
\* returned record, some candidate found for the radius
\* min(500 m, max_height / tan(elevation)) + 3 m shades it exactly when some
\* indexed building does, so the record counts the sample points that no
\* indexed building shades.
C25_PrefilterLosesNothing ==
    (Returned /\ ~raised /\ ~SunIsLow) =>
        \A i \in DOMAIN results :
            LET seats == SeatsOf(results[i])
                all   == DOMAIN IndexOfCall.records
            IN  /\ \A k \in DOMAIN seats :
                       ShadedBy(seats[k], Range(CandidatesAt(seats[k])))
                           <=> ShadedBy(seats[k], all)
                /\ SunnyPoints(results[i])
                       = Cardinality({k \in DOMAIN seats : ~ShadedBy(seats[k], all)})

\* a cafe out of reach of every building, next to one that a candidate shades
C25_Witness ==
    /\ Returned /\ ~raised /\ ~SunIsLow
    /\ Len(IndexOfCall.records) = 2
    /\ \E i \in DOMAIN results :
           \A k \in 1..3 : CandidatesAt(SeatsOf(results[i])[k]) = <<>>
    /\ \E i \in DOMAIN results :
           \E k \in 1..3 : ShadedBy(SeatsOf(results[i])[k],
                                    Range(CandidatesAt(SeatsOf(results[i])[k])))

----------------------------------------------------------------------------
(* recommendations.py: ISO timestamps *)

\* An ISO-8601 string is its wall-clock reading (minutes) and its UTC offset
\* (minutes); NoTime is a missing or malformed string.
Iso(wall, off) == [none |-> FALSE, wall |-> wall, off |-> off]
NoTime         == [none |-> TRUE,  wall |-> 0,    off |-> 0]

\* the instant in UTC minutes, or None
_parse_iso(raw) == IF raw.none THEN None ELSE Some(raw.wall - raw.off)

\* datetime.isoformat() of a UTC instant
IsoFormat(utc_min) == Iso(utc_min, 0)

LOCAL_UTC_OFFSET == 60         \* Europe/Copenhagen, winter time

_to_local_iso(utc_min) == Iso(utc_min + LOCAL_UTC_OFFSET, LOCAL_UTC_OFFSET)

----------------------------------------------------------------------------
(* recommendations.py: the window merger *)

AVAILABLE_CONDITIONS == {"sunny", "partial"}

HourlyRow(time_utc, condition) ==
    [time_utc   |-> time_utc,
     time_local |-> IF time_utc.none THEN NoTime
                    ELSE _to_local_iso(_parse_iso(time_utc).val),
     condition  |-> condition]

NoWindow == [none |-> TRUE]

\* the window ending at the start of its last row
BuildWindowNoHour(rows, start_idx, end_idx, conditions) ==
    IF start_idx < 1 \/ end_idx > Len(rows) THEN NoWindow
    ELSE LET start_row == rows[start_idx]
             end_row   == rows[end_idx]
             start     == _parse_iso(start_row.time_utc)
             end_start == _parse_iso(end_row.time_utc)
         IN  IF start.none \/ end_start.none THEN NoWindow
             ELSE LET end == end_start.val
                  IN  [none         |-> FALSE,
                       start_utc    |-> start_row.time_utc,
                       end_utc      |-> IsoFormat(end),
                       start_local  |-> start_row.time_local,
                       end_local    |-> _to_local_iso(end),
                       duration_min |-> end - start.val,
                       condition    |-> IF \A i \in DOMAIN conditions : conditions[i] = "sunny"
                                        THEN "sunny" ELSE "partial"]

\* the window that takes its condition from the last row of the run
BuildWindowLastCondition(rows, start_idx, end_idx, conditions) ==
    IF start_idx < 1 \/ end_idx > Len(rows) THEN NoWindow
    ELSE LET start_row == rows[start_idx]
             end_row   == rows[end_idx]
             start     == _parse_iso(start_row.time_utc)
             end_start == _parse_iso(end_row.time_utc)
         IN  IF start.none \/ end_start.none THEN NoWindow
             ELSE LET end == end_start.val + 60
                  IN  [none         |-> FALSE,
                       start_utc    |-> start_row.time_utc,
                       end_utc      |-> IsoFormat(end),
                       start_local  |-> start_row.time_local,
                       end_local    |-> _to_local_iso(end),
                       duration_min |-> end - start.val,
                       condition    |-> conditions[Len(conditions)]]

_build_window(rows, start_idx, end_idx, conditions) ==
    IF start_idx < 1 \/ end_idx > Len(rows) THEN NoWindow
    ELSE LET start_row == rows[start_idx]
             end_row   == rows[end_idx]
             start     == _parse_iso(start_row.time_utc)
             end_start == _parse_iso(end_row.time_utc)
         IN  IF start.none \/ end_start.none THEN NoWindow
             ELSE LET end == end_start.val + 60
                  IN  [none         |-> FALSE,
                       start_utc    |-> start_row.time_utc,
                       end_utc      |-> IsoFormat(end),
                       start_local  |-> start_row.time_local,
                       end_local    |-> _to_local_iso(end),
                       duration_min |-> end - start.val,
                       condition    |-> IF \A i \in DOMAIN conditions : conditions[i] = "sunny"
                                        THEN "sunny" ELSE "partial"]

KeepWindowStrict(maybe, min_dur) == ~maybe.none /\ maybe.duration_min > min_dur

\* `if maybe and maybe["duration_min"] >= min_duration_min: windows.append(maybe)`
KeepWindow(maybe, min_dur) == ~maybe.none /\ maybe.duration_min >= min_dur

\* closing the open run, if there is one
CloseRun(rows, min_dur, st) ==
    IF st.start_idx # 0 /\ st.end_idx # 0
    THEN LET maybe == _build_window(rows, st.start_idx, st.end_idx, st.condition_scores)
         IN  IF KeepWindow(maybe, min_dur) THEN Append(st.windows, maybe) ELSE st.windows
    ELSE st.windows

\* a scan that does not close the run at an unavailable row
RECURSIVE ScanRowsNoReset(_, _, _, _)
ScanRowsNoReset(rows, min_dur, idx, st) ==
    IF idx > Len(rows) THEN st
    ELSE IF rows[idx].condition \in AVAILABLE_CONDITIONS
         THEN ScanRowsNoReset(rows, min_dur, idx + 1,
                  [st EXCEPT !.start_idx = IF @ = 0 THEN idx ELSE @,
                             !.end_idx = idx,
                             !.condition_scores = Append(@, rows[idx].condition)])
         ELSE ScanRowsNoReset(rows, min_dur, idx + 1, st)

\* for idx, row in enumerate(hourly_rows): ...   (start_idx 0 stands for None)
RECURSIVE ScanRows(_, _, _, _)
ScanRows(rows, min_dur, idx, st) ==
    IF idx > Len(rows) THEN st
    ELSE IF rows[idx].condition \in AVAILABLE_CONDITIONS
         THEN Only({ ScanRows(rows, min_dur, idx + 1, st2) : st2 \in {
                  [st EXCEPT !.start_idx = IF @ = 0 THEN idx ELSE @,
                             !.end_idx = idx,
                             !.condition_scores = Append(@, rows[idx].condition)]} })
         ELSE Only({ ScanRows(rows, min_dur, idx + 1, st2) : st2 \in {
                  [start_idx |-> 0, end_idx |-> 0, condition_scores |-> <<>>,
                   windows |-> CloseRun(rows, min_dur, st)]} })

merge_windows(rows, min_dur) ==
    IF rows = <<>> THEN <<>>
    ELSE Only({ CloseRun(rows, min_dur, st) : st \in {
             ScanRows(rows, min_dur, 1,
                      [start_idx |-> 0, end_idx |-> 0, condition_scores |-> <<>>,
                       windows |-> <<>>])} })

----------------------------------------------------------------------------
(* The inputs explored for the window merger *)

\* a row is drawn as (condition, minutes since the previous row, parseable time);
\* the rows are laid out after 09:00 UTC
RowKind(c, gap, ok) == [condition |-> c, gap |-> gap, ok |-> ok]

RowKinds ==
    {RowKind(c, gap, TRUE) : c \in {"sunny", "partial", "shaded"}, gap \in {60, 120}}
        \cup {RowKind("sunny", 60, FALSE)}

RECURSIVE BuildRows(_, _)
BuildRows(kinds, t) ==
    IF kinds = <<>> THEN <<>>
    ELSE LET k == Head(kinds)
         IN  <<HourlyRow(IF k.ok THEN IsoFormat(t + k.gap) ELSE NoTime, k.condition)>>
                 \o BuildRows(Tail(kinds), t + k.gap)

MinDurations == {30, 90, 120}

InitMerge ==
    /\ pc = "merge"
    /\ hourly_rows \in {BuildRows(ks, 540) : ks \in SeqsUpTo(RowKinds, MaxRows)}
    /\ min_duration_min \in MinDurations
    /\ windows = <<>>
    /\ RankIdle /\ RecIdle /\ LoadIdle /\ ProjIdle /\ SvcIdle

MergeWindows ==
    /\ pc = "merge"
    /\ windows' = merge_windows(hourly_rows, min_duration_min)
    /\ pc' = "done"
    /\ UNCHANGED <<hourly_rows, min_duration_min, rankVars, recVars, loadVars, projVars, svcVars>>

NextMerge == MergeWindows

SpecMerge == InitMerge /\ [][NextMerge]_vars

----------------------------------------------------------------------------
(* Claims about the window merger *)

Merged      == pc = "done" /\ hourly_rows # <<>>
NRows       == Len(hourly_rows)
Avail(k)    == hourly_rows[k].condition \in {"sunny", "partial"}
Parses(k)   == ~hourly_rows[k].time_utc.none
AllParse    == \A k \in 1..NRows : Parses(k)
RowTime(k)  == hourly_rows[k].time_utc.wall - hourly_rows[k].time_utc.off
WStart(w)   == w.start_utc.wall - w.start_utc.off
WEnd(w)     == w.end_utc.wall - w.end_utc.off
InWindow(k, w) == WStart(w) <= RowTime(k) /\ RowTime(k) < WEnd(w)

\* the maximal runs of consecutive available rows, as <<first, last>>
IsRun(i, j) ==
    /\ i <= j
    /\ \A k \in i..j : Avail(k)
    /\ i = 1 \/ ~Avail(i - 1)
    /\ j = NRows \/ ~Avail(j + 1)
Runs == {r \in (1..NRows) \X (1..NRows) : IsRun(r[1], r[2])}
IsWindowOf(w, r) ==
    /\ Parses(r[1]) /\ Parses(r[2])
    /\ WStart(w) = RowTime(r[1])
    /\ WEnd(w) = RowTime(r[2]) + 60
Hourly(i, j) == \A k \in i..(j - 1) : RowTime(k + 1) = RowTime(k) + 60

\* C3: the windows are maximal runs of available rows, one window per run and
\* in order: no unavailable row lies in a window, adjacent available rows lie in
\* the same windows, and [partial, sunny, shaded, sunny] with a minimum of 90
\* minutes gives one window of 120 minutes with condition partial.
C3_WindowsAreMaximalRuns ==
    (Merged /\ AllParse) =>
        /\ \A a \in DOMAIN windows : \E r \in Runs : IsWindowOf(windows[a], r)
        /\ \A a, b \in DOMAIN windows : a < b => WEnd(windows[a]) <= WStart(windows[b])
        /\ \A a \in DOMAIN windows : \A k \in 1..NRows :
               ~Avail(k) => ~InWindow(k, windows[a])
        /\ \A a \in DOMAIN windows : \A k \in 1..(NRows - 1) :
               (Avail(k) /\ Avail(k + 1)) =>
                   (InWindow(k, windows[a]) <=> InWindow(k + 1, windows[a]))
        /\ min_duration_min <= 60 => Len(windows) = Cardinality(Runs)
        /\ ( /\ [k \in 1..NRows |-> hourly_rows[k].condition]
                    = <<"partial", "sunny", "shaded", "sunny">>
             /\ Hourly(1, NRows)
             /\ min_duration_min = 90 )
           => /\ Len(windows) = 1
              /\ windows[1].duration_min = 120
              /\ windows[1].condition = "partial"

C3_Witness ==
    /\ Merged /\ AllParse
    /\ [k \in 1..NRows |-> hourly_rows[k].condition] = <<"partial", "sunny", "shaded", "sunny">>
    /\ Hourly(1, NRows)
    /\ min_duration_min = 90
    /\ Len(windows) = 1

\* C4: the windows returned are exactly the window candidates (the maximal runs
\* whose first and last row carry a time) that last at least min_duration_min,
\* the run that reaches the end of the sequence included.
Candidates == {r \in Runs : Parses(r[1]) /\ Parses(r[2])}
Lasting    == {r \in Candidates : RowTime(r[2]) + 60 - RowTime(r[1]) >= min_duration_min}

C4_ExactlyTheLongEnough ==
    Merged =>
        /\ \A a \in DOMAIN windows : windows[a].duration_min >= min_duration_min
        /\ \A r \in Lasting : \E a \in DOMAIN windows : IsWindowOf(windows[a], r)
        /\ \A a \in DOMAIN windows : \E r \in Lasting : IsWindowOf(windows[a], r)
        /\ Len(windows) = Cardinality(Lasting)

C4_Witness ==
    /\ Merged
    /\ NRows = 4 /\ Avail(NRows)
    /\ Cardinality(Candidates) = 2
    /\ Len(windows) = 1
    /\ windows[1].duration_min = min_duration_min
    /\ IsWindowOf(windows[1], <<3, 4>>)

\* C5: a window starts with the first row of its run, ends one hour after the
\* start of its last row, and lasts end - start minutes: 60 minutes per row when
\* the rows of the run are at consecutive hours.
C5_WindowBounds ==
    Merged =>
        \A a \in DOMAIN windows : \E r \in Candidates :
            /\ windows[a].start_utc = hourly_rows[r[1]].time_utc
            /\ windows[a].end_utc = IsoFormat(RowTime(r[2]) + 60)
            /\ windows[a].duration_min = WEnd(windows[a]) - WStart(windows[a])
            /\ ((\A k \in r[1]..r[2] : Parses(k)) /\ Hourly(r[1], r[2])) =>
                   windows[a].duration_min = 60 * (r[2] - r[1] + 1)

C5_Witness ==
    /\ Merged /\ AllParse
    /\ Len(windows) = 2
    /\ windows[1].duration_min = 120 /\ IsWindowOf(windows[1], <<1, 2>>)
    /\ windows[2].duration_min = 60 /\ IsWindowOf(windows[2], <<4, 4>>)

\* C18: the condition of a window is "sunny" exactly when every row of its run
\* is "sunny", and "partial" otherwise.
C18_SunnyIffAllSunny ==
    Merged =>
        \A a \in DOMAIN windows : \E r \in Candidates :
            /\ IsWindowOf(windows[a], r)
            /\ windows[a].condition \in {"sunny", "partial"}
            /\ windows[a].condition = "sunny" <=>
                   \A k \in r[1]..r[2] : hourly_rows[k].condition = "sunny"

\* a window of one sunny row, then a window of a partial row followed by a sunny row
C18_Witness ==
    /\ Merged /\ AllParse
    /\ [k \in 1..NRows |-> hourly_rows[k].condition] = <<"sunny", "shaded", "partial", "sunny">>
    /\ Len(windows) = 2
    /\ windows[1].condition = "sunny" /\ IsWindowOf(windows[1], <<1, 1>>)
    /\ windows[2].condition = "partial" /\ IsWindowOf(windows[2], <<3, 4>>)

----------------------------------------------------------------------------
(* recommendations.py: the recommendation ranker *)

\* order of the UTC-offset suffixes as text: "+.." before "-..", then by digits
SuffixRank(off) == IF off >= 0 THEN off ELSE 1440 - off

\* a < b for two ISO strings of the same layout (Python str comparison)
IsoLess(a, b) ==
    \/ a.wall < b.wall
    \/ a.wall = b.wall /\ SuffixRank(a.off) < SuffixRank(b.off)

HourOf(minutes) == (minutes \div 60) % 24

\* the hour tested is start_utc.hour of the instant parsed to UTC
_window_matches_preference(start_utc, periods) ==
    LET local_hour == HourOf(start_utc)
    IN  \E i \in DOMAIN periods :
            \/ periods[i] = "morning"   /\ 6 <= local_hour  /\ local_hour < 11
            \/ periods[i] = "lunch"     /\ 11 <= local_hour /\ local_hour < 14
            \/ periods[i] = "afternoon" /\ 14 <= local_hour /\ local_hour < 18
            \/ periods[i] = "evening"   /\ 18 <= local_hour /\ local_hour < 22

\* one recommendation item; score is in hundredths
MakeItem(idx, payload, window, periods, now) ==
    LET start        == _parse_iso(window.start_utc).val
        duration_min == window.duration_min
        condition    == window.condition
        minutes_until == Max(0, start - now)
        \* the four weights, each times 300
        duration_weight  == Min(12000, 100 * duration_min)
        condition_weight == IF condition = "sunny" THEN 9000 ELSE 4500
        soonness_weight  == Max(0, 6000 - 10 * minutes_until)
        matches          == _window_matches_preference(start, periods)
        preferred_bonus  == IF matches THEN 3000 ELSE 0
    IN  [cafe_id      |-> idx,
         cafe_name    |-> payload.cafe_name,
         start_utc    |-> window.start_utc,
         end_utc      |-> window.end_utc,
         start_local  |-> window.start_local,
         end_local    |-> window.end_local,
         duration_min |-> duration_min,
         condition    |-> condition,
         score        |-> RoundDiv(duration_weight + condition_weight
                                   + soonness_weight + preferred_bonus, 3),
         reason       |-> <<IF duration_min >= 90 THEN "long sun window"
                            ELSE IF duration_min >= 45 THEN "solid sun window"
                            ELSE "short sun window">>
                          \o (IF matches THEN <<"matches preferred period">> ELSE <<>>)
                          \o (IF condition = "sunny"
                              THEN <<"high direct-sun potential">> ELSE <<>>)]

\* a filter that also drops the windows that have started
RecommendableNotStarted(window, now) ==
    /\ ~_parse_iso(window.start_utc).none
    /\ ~_parse_iso(window.end_utc).none
    /\ _parse_iso(window.start_utc).val > now

\* `if start is None or end is None: continue` / `if end <= now_utc: continue`
Recommendable(window, now) ==
    /\ ~_parse_iso(window.start_utc).none
    /\ ~_parse_iso(window.end_utc).none
    /\ _parse_iso(window.end_utc).val > now

RECURSIVE CollectWindows(_, _, _, _, _)
CollectWindows(idx, payload, ws, periods, now) ==
    IF ws = <<>> THEN <<>>
    ELSE (IF Recommendable(Head(ws), now)
          THEN <<MakeItem(idx, payload, Head(ws), periods, now)>> ELSE <<>>)
         \o CollectWindows(idx, payload, Tail(ws), periods, now)

RECURSIVE CollectItems(_, _, _, _)
CollectItems(wbc, idx, periods, now) ==
    IF idx > Len(wbc) THEN <<>>
    ELSE CollectWindows(idx, wbc[idx], wbc[idx].windows, periods, now)
         \o CollectItems(wbc, idx + 1, periods, now)

\* key=(-score, start_utc, cafe_name): start_utc is compared as a string
ItemKeyLess(a, b) ==
    \/ a.score > b.score
    \/ a.score = b.score /\ IsoLess(a.start_utc, b.start_utc)
    \/ a.score = b.score /\ a.start_utc = b.start_utc
         /\ NameRank(a.cafe_name) < NameRank(b.cafe_name)

\* list.sort() is stable
RECURSIVE InsertItem(_, _)
InsertItem(sorted, item) ==
    IF sorted = <<>> THEN <<item>>
    ELSE IF ItemKeyLess(item, Head(sorted)) THEN <<item>> \o sorted
    ELSE Only({ <<Head(sorted)>> \o InsertItem(rest, item) : rest \in {Tail(sorted)} })

RECURSIVE SortItems(_, _)
SortItems(unsorted, sorted) ==
    IF unsorted = <<>> THEN sorted
    ELSE Only({ SortItems(rest, placed)
                : rest \in {Tail(unsorted)}, placed \in {InsertItem(sorted, Head(unsorted))} })

\* a reading of the clock whatever the argument is
NowFromClock(now_arg, clock_reading) == clock_reading

\* now_utc = _ensure_utc(now_utc or datetime.now(UTC))
ResolveNow(now_arg, clock_reading) ==
    IF now_arg.none THEN clock_reading ELSE now_arg.val

\* the body of rank_recommendations after now_utc is resolved
rank_recommendations(wbc, periods, now) ==
    SortItems(CollectItems(wbc, 1, periods, now), <<>>)

----------------------------------------------------------------------------
(* The inputs explored for the recommendation ranker *)

\* a window as merge_windows builds it, its start written with the given offset
SunWindow(start_utc, duration_min, condition) ==
    LET start == _parse_iso(start_utc).val
    IN  [start_utc    |-> start_utc,
         end_utc      |-> IsoFormat(start + duration_min),
         start_local  |-> _to_local_iso(start),
         end_local    |-> _to_local_iso(start + duration_min),
         duration_min |-> duration_min,
         condition    |-> condition]

UntimedWindow ==
    [start_utc |-> NoTime, end_utc |-> NoTime, start_local |-> NoTime,
     end_local |-> NoTime, duration_min |-> 60, condition |-> "sunny"]

\* 10:00 and 11:00 UTC, each written with offset +00:00 and with offset +02:00
StartStrings == {Iso(600, 0), Iso(660, 0), Iso(720, 120), Iso(780, 120)}

WindowPool ==
    {SunWindow(st, 120, "sunny") : st \in StartStrings}
        \cup {SunWindow(st, 60, "partial") : st \in StartStrings}
        \cup {SunWindow(Iso(600, 0), 110, "sunny")}
        \cup {UntimedWindow}

Payloads ==
    {[cafe_name |-> n, windows |-> ws] :
        n \in {"Alpha", "Beta"}, ws \in SeqsUpTo(WindowPool, 1)}

PeriodLists == {<<>>, <<"lunch">>, <<"morning">>}
NowInstants == {0, 690, 720}

\* the caller passes the present instant as now_utc, or leaves now_utc out
InitRec ==
    /\ pc = "recommend"
    /\ windows_by_cafe \in SeqsUpTo(Payloads, MaxEntities)
    /\ preferred_periods \in PeriodLists
    /\ clock \in NowInstants
    /\ now_utc \in {None, Some(clock)}
    /\ items = <<>> /\ items_again = <<>>
    /\ RankIdle /\ MergeIdle /\ LoadIdle /\ ProjIdle /\ SvcIdle

RankRecommendations ==
    /\ pc = "recommend"
    /\ items' = rank_recommendations(windows_by_cafe, preferred_periods,
                                     ResolveNow(now_utc, clock))
    /\ pc' = "done"
    /\ UNCHANGED <<windows_by_cafe, preferred_periods, now_utc, clock, items_again,
                   rankVars, mergeVars, loadVars, projVars, svcVars>>

\* the same call made once more, three quarters of an hour later
RankAgain ==
    /\ pc = "done" /\ windows_by_cafe # <<>>
    /\ clock' = clock + 45
    /\ items_again' = rank_recommendations(windows_by_cafe, preferred_periods,
                                           ResolveNow(now_utc, clock'))
    /\ pc' = "again"
    /\ UNCHANGED <<windows_by_cafe, preferred_periods, now_utc, items,
                   rankVars, mergeVars, loadVars, projVars, svcVars>>

NextRec == RankRecommendations \/ RankAgain

SpecRec == InitRec /\ [][NextRec]_vars

----------------------------------------------------------------------------
(* Claims about the recommendation ranker *)

Ranked        == pc = "done" /\ windows_by_cafe # <<>>
StartInstant(item) == item.start_utc.wall - item.start_utc.off

\* C6: the items are in descending order of score; items of equal score are in
\* ascending order of start instant, and items of equal score and start instant
\* in ascending order of cafe name, whatever UTC offset the start_utc strings
\* are written with.
C6_OrderedByScoreStartName ==
    Ranked =>
        \A i, j \in DOMAIN items : i < j =>
            /\ items[i].score >= items[j].score
            /\ items[i].score = items[j].score =>
                   StartInstant(items[i]) <= StartInstant(items[j])
            /\ (items[i].score = items[j].score
                   /\ StartInstant(items[i]) = StartInstant(items[j])) =>
                   NameRank(items[i].cafe_name) <= NameRank(items[j].cafe_name)

\* C6, for start_utc strings that all carry the same offset.
C6_OrderedWhenSameOffset ==
    (Ranked /\ \A i, j \in DOMAIN items : items[i].start_utc.off = items[j].start_utc.off) =>
        \A i, j \in DOMAIN items : i < j =>
            /\ items[i].score >= items[j].score
            /\ items[i].score = items[j].score =>
                   StartInstant(items[i]) <= StartInstant(items[j])
            /\ (items[i].score = items[j].score
                   /\ StartInstant(items[i]) = StartInstant(items[j])) =>
                   NameRank(items[i].cafe_name) <= NameRank(items[j].cafe_name)

\* C7: an item has the preferred-period bonus exactly when the local hour of
\* its start (the hour of start_local) lies in one of the preferred periods:
\* morning [6,11), lunch [11,14), afternoon [14,18), evening [18,22).
InPeriod(name, h) ==
    \/ name = "morning"   /\ h \in 6..10
    \/ name = "lunch"     /\ h \in 11..13
    \/ name = "afternoon" /\ h \in 14..17
    \/ name = "evening"   /\ h \in 18..21
LocalStartHour(item) == (item.start_local.wall \div 60) % 24
HasBonus(item) == \E k \in DOMAIN item.reason : item.reason[k] = "matches preferred period"

C7_BonusOnLocalHour ==
    Ranked =>
        \A i \in DOMAIN items :
            HasBonus(items[i]) <=>
                \E k \in DOMAIN preferred_periods :
                    InPeriod(preferred_periods[k], LocalStartHour(items[i]))

\* the windows handed in, as <<cafe position, window position>>
WindowSlots ==
    {sl \in (DOMAIN windows_by_cafe) \X (1..1) : sl[2] \in DOMAIN windows_by_cafe[sl[1]].windows}
SlotWindow(sl) == windows_by_cafe[sl[1]].windows[sl[2]]
Timed(w)       == ~w.start_utc.none /\ ~w.end_utc.none
StartOf(w)     == w.start_utc.wall - w.start_utc.off
EndOf(w)       == w.end_utc.wall - w.end_utc.off
\* the windows that have not ended at the instant of the call
Live           == {sl \in WindowSlots : Timed(SlotWindow(sl)) /\ EndOf(SlotWindow(sl)) > clock}
IsItemOf(item, sl) ==
    /\ item.cafe_id = sl[1]
    /\ item.start_utc = SlotWindow(sl).start_utc
    /\ item.end_utc = SlotWindow(sl).end_utc

\* C12: no item is a window that has ended at now_utc (end <= now_utc), and
\* every window with a start and an end whose end is after now_utc has its
\* item, a window that has started but not ended included.
C12_EndedDroppedLiveKept ==
    Ranked =>
        /\ \A i \in DOMAIN items : EndOf(items[i]) > clock
        /\ \A sl \in Live : \E i \in DOMAIN items : IsItemOf(items[i], sl)
        /\ \A i \in DOMAIN items : \E sl \in Live : IsItemOf(items[i], sl)
        /\ Len(items) = Cardinality(Live)

\* one window in progress is kept, one window ending at now_utc is dropped
C12_Witness ==
    /\ Ranked
    /\ \E sl \in Live : StartOf(SlotWindow(sl)) < clock
    /\ \E sl \in WindowSlots : Timed(SlotWindow(sl)) /\ EndOf(SlotWindow(sl)) = clock
    /\ Len(items) = 1

\* the four weights of an item, each times 300
DurationWeight(item)  == Min(12000, 100 * item.duration_min)
ConditionWeight(item) == IF item.condition = "sunny" THEN 9000 ELSE 4500
SoonnessWeight(item)  == Max(0, 6000 - 10 * Max(0, StartInstant(item) - clock))
PreferredBonus(item)  == IF HasBonus(item) THEN 3000 ELSE 0
WeightSum(item) ==
    DurationWeight(item) + ConditionWeight(item) + SoonnessWeight(item) + PreferredBonus(item)

\* C13 as stated: the score of every item is exactly the sum of the four weights
\* (score is in hundredths, the weights are times 300).
C13_ScoreIsExactSum ==
    Ranked => \A i \in DOMAIN items : 3 * items[i].score = WeightSum(items[i])

\* C13: the score of every item is the sum of the four weights rounded to two
\* decimals (the hundredth nearest to the sum); the soonness weight is 0 from ten hours ahead and 20 for a window
\* in progress; and of two items with the same start the longer sunny one
\* scores strictly higher than the shorter partial one.
C13_ScoreIsRoundedSum ==
    Ranked =>
        /\ \A i \in DOMAIN items :
               /\ 3 * items[i].score - WeightSum(items[i]) \in -1..1
               /\ StartInstant(items[i]) - clock >= 600 => SoonnessWeight(items[i]) = 0
               /\ StartInstant(items[i]) <= clock => SoonnessWeight(items[i]) = 6000
        /\ \A i, j \in DOMAIN items :
               ( /\ StartInstant(items[i]) = StartInstant(items[j])
                 /\ items[i].duration_min > items[j].duration_min
                 /\ items[i].condition = "sunny" /\ items[j].condition = "partial" )
               => items[i].score > items[j].score

\* a window of 110 minutes, whose duration weight has no exact two decimals,
\* beside a shorter partial window with the same start
C13_Witness ==
    /\ Ranked
    /\ Len(items) = 2
    /\ items[1].duration_min = 110 /\ items[1].condition = "sunny"
    /\ items[2].duration_min = 60 /\ items[2].condition = "partial"
    /\ StartInstant(items[1]) = StartInstant(items[2])
    /\ 3 * items[1].score # WeightSum(items[1])

----------------------------------------------------------------------------
(* api.py: building heights and the building loader *)

\* a JSON property value: null (or a missing key), a number in tenths, or a
\* string given as its characters
JNull       == [kind |-> "null", num |-> 0, text |-> <<>>]
JNum(n)     == [kind |-> "num",  num |-> n, text |-> <<>>]
JStr(chars) == [kind |-> "str",  num |-> 0, text |-> chars]

Digits == <<"0", "1", "2", "3", "4", "5", "6", "7", "8", "9">>
IsDigit(c)  == \E d \in DOMAIN Digits : Digits[d] = c
DigitVal(c) == (CHOOSE d \in DOMAIN Digits : Digits[d] = c) - 1

RECURSIVE NatOf(_)
NatOf(ds) ==
    IF ds = <<>> THEN 0
    ELSE 10 * NatOf(SubSeq(ds, 1, Len(ds) - 1)) + DigitVal(ds[Len(ds)])

\* str.lower() over the letters that occur
LowerChar(c) == CASE c = "M" -> "m" [] c = "T" -> "t" [] OTHER -> c
Lower(chars) == [i \in DOMAIN chars |-> LowerChar(chars[i])]

\* str.replace("m", "")
WithoutM(chars) == SelectSeq(chars, LAMBDA c : c # "m")

\* str.strip()
RECURSIVE Strip(_)
Strip(chars) ==
    IF chars # <<>> /\ Head(chars) = " " THEN Strip(Tail(chars))
    ELSE IF chars # <<>> /\ chars[Len(chars)] = " "
         THEN Strip(SubSeq(chars, 1, Len(chars) - 1))
         ELSE chars

\* float(text) for a decimal literal, kept to the tenth; None stands for ValueError
ParseFloat(chars) ==
    LET signed == chars # <<>> /\ chars[1] \in {"-", "+"}
        body   == IF signed THEN Tail(chars) ELSE chars
        dots   == {i \in DOMAIN body : body[i] = "."}
        dot    == IF dots = {} THEN Len(body) + 1 ELSE CHOOSE i \in dots : TRUE
        whole  == SubSeq(body, 1, dot - 1)
        frac   == SubSeq(body, dot + 1, Len(body))
        tenths == 10 * NatOf(whole) + (IF frac = <<>> THEN 0 ELSE DigitVal(frac[1]))
    IN  IF /\ Cardinality(dots) <= 1
           /\ \A i \in DOMAIN whole : IsDigit(whole[i])
           /\ \A i \in DOMAIN frac : IsDigit(frac[i])
           /\ Len(whole) + Len(frac) >= 1
        THEN Some(IF signed /\ chars[1] = "-" THEN -tenths ELSE tenths)
        ELSE None

_as_float(value) ==
    CASE value.kind = "null" -> None
      [] value.kind = "num"  -> Some(value.num)
      [] value.kind = "str"  -> ParseFloat(Strip(WithoutM(Lower(value.text))))

\* `if x and x > 0`
Positive(x) == ~x.none /\ x.val # 0 /\ x.val > 0

\* the property bag of a building; building is "" when the key is missing,
\* null or empty, all of which `properties.get("building") or "yes"` replaces
Properties(height, floors, alt_floors, levels, building) ==
    [height |-> height, byg054AntalEtager |-> floors,
     byg055AfvigendeEtager |-> alt_floors, building_levels |-> levels,
     building |-> building]

\* str.lower() over the building types that occur
LowerWord(w) == CASE w = "Church" -> "church" [] OTHER -> w

\* heights in tenths of a metre
defaults ==
    [house |-> 80, residential |-> 90, apartments |-> 120, commercial |-> 140,
     retail |-> 120, office |-> 150, industrial |-> 110, warehouse |-> 100,
     hospital |-> 180, hotel |-> 200, school |-> 120, church |-> 220,
     cathedral |-> 250]

Resolved(h, src) == [height_m |-> h, height_source |-> src]

\* a resolver that looks at the floor counts before the height tag
ResolveFloorsFirst(properties) ==
    LET direct_height  == _as_float(properties.height)
        bbr_levels     == _as_float(properties.byg054AntalEtager)
        bbr_alt_levels == _as_float(properties.byg055AfvigendeEtager)
        levels         == _as_float(properties.building_levels)
        building_type  == LowerWord(IF properties.building = "" THEN "yes"
                                    ELSE properties.building)
    IN  IF Positive(bbr_levels) THEN Resolved(bbr_levels.val * 3, "bbr_floors")
        ELSE IF Positive(bbr_alt_levels)
             THEN Resolved(bbr_alt_levels.val * 3, "bbr_alt_floors")
        ELSE IF Positive(levels) THEN Resolved(levels.val * 3, "building_levels")
        ELSE IF Positive(direct_height) THEN Resolved(direct_height.val, "height_tag")
        ELSE Resolved(IF building_type \in DOMAIN defaults
                      THEN defaults[building_type] ELSE 90,
                      "imputed_" \o building_type)

\* a resolver with no default for a building without a height or a floor count
ResolveWithoutDefault(properties) ==
    LET direct_height  == _as_float(properties.height)
        bbr_levels     == _as_float(properties.byg054AntalEtager)
        bbr_alt_levels == _as_float(properties.byg055AfvigendeEtager)
        levels         == _as_float(properties.building_levels)
    IN  IF Positive(direct_height) THEN Resolved(direct_height.val, "height_tag")
        ELSE IF Positive(bbr_levels) THEN Resolved(bbr_levels.val * 3, "bbr_floors")
        ELSE IF Positive(bbr_alt_levels)
             THEN Resolved(bbr_alt_levels.val * 3, "bbr_alt_floors")
        ELSE IF Positive(levels) THEN Resolved(levels.val * 3, "building_levels")
        ELSE Resolved(0, "unknown")

_resolve_height_m(properties) ==
    LET direct_height  == _as_float(properties.height)
        bbr_levels     == _as_float(properties.byg054AntalEtager)
        bbr_alt_levels == _as_float(properties.byg055AfvigendeEtager)
        levels         == _as_float(properties.building_levels)
        building_type  == LowerWord(IF properties.building = "" THEN "yes"
                                    ELSE properties.building)
    IN  IF Positive(direct_height) THEN Resolved(direct_height.val, "height_tag")
        ELSE IF Positive(bbr_levels) THEN Resolved(bbr_levels.val * 3, "bbr_floors")
        ELSE IF Positive(bbr_alt_levels)
             THEN Resolved(bbr_alt_levels.val * 3, "bbr_alt_floors")
        ELSE IF Positive(levels) THEN Resolved(levels.val * 3, "building_levels")
        ELSE Resolved(IF building_type \in DOMAIN defaults
                      THEN defaults[building_type] ELSE 90,
                      "imputed_" \o building_type)

\* a feature of buildings.geojson; NoGeometry is a missing or null geometry
NoGeometry == [geom_type |-> "None", geoms |-> <<>>]
Feature(geometry, properties) == [geometry |-> geometry, properties |-> properties]

IsValidGeom(geom) == \A i \in DOMAIN geom.geoms : geom.geoms[i].is_valid

\* the polygons make_valid leaves of a list of polygons
RECURSIVE RepairedPolys(_)
RepairedPolys(polys) ==
    IF polys = <<>> THEN <<>>
    ELSE (IF Head(polys).is_valid THEN <<Head(polys)>>
          ELSE [i \in DOMAIN Head(polys).repaired |-> ValidPoly(Head(polys).repaired[i])])
         \o RepairedPolys(Tail(polys))

make_valid(geom) ==
    LET polys == RepairedPolys(geom.geoms)
    IN  IF polys = <<>> THEN LineString
        ELSE IF Len(polys) = 1 THEN Polygon(polys[1])
        ELSE MultiPolygon(polys)

\* the body of `for feature in features:`: the building appended, if any
LoadFeature(feature) ==
    LET geom_json == feature.geometry
        geom      == IF IsValidGeom(geom_json) THEN geom_json ELSE make_valid(geom_json)
        resolved  == _resolve_height_m(feature.properties)
    IN  IF geom_json = NoGeometry \/ IsEmptyGeom(geom_json) THEN <<>>
        ELSE IF geom.geom_type \notin {"Polygon", "MultiPolygon"} THEN <<>>
        ELSE << [geom_utm      |-> geom,
                 height_m      |-> resolved.height_m,
                 height_source |-> resolved.height_source,
                 building_type |-> IF feature.properties.building = "" THEN "yes"
                                   ELSE feature.properties.building] >>

RECURSIVE LoadFrom(_, _)
LoadFrom(feats, i) ==
    IF i > Len(feats) THEN <<>>
    ELSE LoadFeature(feats[i]) \o LoadFrom(feats, i + 1)

_load_buildings(feats) == LoadFrom(feats, 1)

----------------------------------------------------------------------------
(* The inputs explored for the building loader *)

HeightTags ==
    { JNull, JNum(120), JNum(0), JStr(<<"7", ".", "5", " ", "M">>),
      JStr(<<"t", "a", "l", "l">>) }

\* primary, alternate and generic floor counts
FloorCounts ==
    { <<JNull, JNull, JNull>>,
      <<JNum(20), JStr(<<"3">>), JNum(40)>>,
      <<JNull, JStr(<<"3">>), JNum(40)>>,
      <<JNum(-10), JNull, JStr(<<"2", ".", "5">>)>> }

PropertyBags ==
    {Properties(h, f[1], f[2], f[3], "") : h \in HeightTags, f \in FloorCounts}
        \cup {Properties(JNull, JNull, JNull, JNull, b) : b \in {"Church", "house", "shed"}}

FeaturePool ==
    {Feature(SouthBlock.geom_utm, p) : p \in PropertyBags}
        \cup {Feature(g, Properties(JNull, JNull, JNull, JNull, "")) :
                 g \in {NoGeometry, EmptyPolygon, LineString, Sliver.geom_utm, BowTie.geom_utm}}

QueryAreas == {Rect(-100, -300, 100, 100), Rect(5000, 5000, 5100, 5100)}

InitLoad ==
    /\ pc = "load"
    /\ raw_features \in SeqsUpTo(FeaturePool, MaxEntities)
    /\ loaded = <<>>
    /\ building_index = build_building_index(<<>>)
    /\ query_area = Rect(0, 0, 0, 0) /\ candidates = <<>>
    /\ RankIdle /\ MergeIdle /\ RecIdle /\ ProjIdle /\ SvcIdle

\* BUILDINGS = _load_buildings(); BUILDING_INDEX = build_building_index(BUILDINGS)
LoadBuildings ==
    /\ pc = "load"
    /\ loaded' = _load_buildings(raw_features)
    /\ building_index' = build_building_index(loaded')
    /\ pc' = "loaded"
    /\ UNCHANGED <<raw_features, query_area, candidates,
                   rankVars, mergeVars, recVars, projVars, svcVars>>

QueryCandidates ==
    /\ pc = "loaded"
    /\ \E area \in QueryAreas :
           /\ query_area' = area
           /\ candidates' = _query_candidate_indices(building_index, area)
    /\ pc' = "done"
    /\ UNCHANGED <<raw_features, loaded, building_index,
                   rankVars, mergeVars, recVars, projVars, svcVars>>

NextLoad == LoadBuildings \/ QueryCandidates

SpecLoad == InitLoad /\ [][NextLoad]_vars

----------------------------------------------------------------------------
(* Claims about the building loader *)

Loaded == pc \in {"loaded", "done"} /\ raw_features # <<>>

\* the number a tag states, in tenths, if it states one
Denotes(v) ==
    CASE v.kind = "num"                       -> Some(v.num)
      [] v = JStr(<<"7", ".", "5", " ", "M">>) -> Some(75)
      [] v = JStr(<<"3">>)                    -> Some(30)
      [] v = JStr(<<"2", ".", "5">>)          -> Some(25)
      [] OTHER                                -> None
States(v) == ~Denotes(v).none /\ Denotes(v).val > 0

\* the features with a polygonal footprint, and where each lands in BUILDINGS
Polygonal(g) ==
    /\ g.geom_type \in {"Polygon", "MultiPolygon"}
    /\ \E i \in DOMAIN g.geoms : g.geoms[i].is_valid \/ g.geoms[i].repaired # <<>>
Kept == {i \in DOMAIN raw_features : Polygonal(raw_features[i].geometry)}
PlaceOf(i) == Cardinality({j \in Kept : j <= i})

\* the source and the height the priority order gives a property bag
SourceByPriority(p) ==
    IF States(p.height) THEN "height_tag"
    ELSE IF States(p.byg054AntalEtager) THEN "bbr_floors"
    ELSE IF States(p.byg055AfvigendeEtager) THEN "bbr_alt_floors"
    ELSE IF States(p.building_levels) THEN "building_levels"
    ELSE "default"

\* C11: the height is the positive explicit height tag if there is one, else
\* three times the primary floor count, else three times the alternate floor
\* count, else three times the generic floor count, else a default of the
\* building category; the source recorded is the one that won.  With a height tag
\* and floor counts the source is "height_tag" and the height is the tag's.
C11_HeightByPriority ==
    Loaded =>
        \A i \in Kept :
            LET p   == raw_features[i].properties
                b   == loaded[PlaceOf(i)]
                src == SourceByPriority(p)
            IN  /\ src = "height_tag" =>
                       b.height_source = "height_tag" /\ b.height_m = Denotes(p.height).val
                /\ src = "bbr_floors" =>
                       /\ b.height_source = "bbr_floors"
                       /\ b.height_m = 3 * Denotes(p.byg054AntalEtager).val
                /\ src = "bbr_alt_floors" =>
                       /\ b.height_source = "bbr_alt_floors"
                       /\ b.height_m = 3 * Denotes(p.byg055AfvigendeEtager).val
                /\ src = "building_levels" =>
                       /\ b.height_source = "building_levels"
                       /\ b.height_m = 3 * Denotes(p.building_levels).val
                /\ src = "default" =>
                       /\ b.height_source \notin
                              {"height_tag", "bbr_floors", "bbr_alt_floors", "building_levels"}
                       /\ b.height_m > 0

\* a building with the tag "7.5 M" and three floor counts beside one with a
\* height of 0 and two floor counts
C11_Witness ==
    /\ Loaded /\ Len(loaded) = 2
    /\ raw_features[1].properties.height = JStr(<<"7", ".", "5", " ", "M">>)
    /\ States(raw_features[1].properties.byg054AntalEtager)
    /\ loaded[1].height_source = "height_tag" /\ loaded[1].height_m = 75
    /\ raw_features[2].properties.height = JNum(0)
    /\ loaded[2].height_source = "bbr_alt_floors" /\ loaded[2].height_m = 90

\* C20: every property bag resolves to a height above 0, so every feature with
\* a polygonal footprint is in BUILDINGS and in the index built from it.
C20_EveryBuildingIndexed ==
    Loaded =>
        /\ Len(loaded) = Cardinality(Kept)
        /\ \A k \in DOMAIN loaded : loaded[k].height_m > 0
        /\ building_index.records = loaded

\* two buildings with no height and no floor count, one of an unknown category
C20_Witness ==
    /\ Loaded /\ Len(loaded) = 2
    /\ \A i \in DOMAIN raw_features :
           SourceByPriority(raw_features[i].properties) = "default"
    /\ loaded[1].height_source = "imputed_shed" /\ loaded[1].height_m = 90
    /\ loaded[2].height_source = "imputed_church" /\ loaded[2].height_m = 220
    /\ Len(building_index.records) = 2

----------------------------------------------------------------------------
(* The ranking engine, the window merger and the start-up side by side *)

InitEngine == Init \/ InitMerge \/ InitLoad
NextEngine == Next \/ NextMerge \/ NextLoad
SpecEngine == InitEngine /\ [][NextEngine]_vars

\* C17: empty inputs give empty results and no error: a ranking call with no
\* cafe returns [], merge_windows([]) returns [], and a candidate query against
\* an index built from no building returns [].
C17_EmptyInEmptyOut ==
    /\ (pc = "done" /\ cafes = <<>>) => (results = <<>> /\ ~raised)
    /\ (pc = "done" /\ hourly_rows = <<>>) => windows = <<>>
    /\ (pc = "done" /\ building_index.records = <<>>) => candidates = <<>>

\* features that leave no building, and a query against the index made of them
C17_Witness ==
    /\ pc = "done"
    /\ Len(raw_features) = 2 /\ loaded = <<>>
    /\ building_index.records = <<>>
    /\ query_area \in QueryAreas
    /\ candidates = <<>>

----------------------------------------------------------------------------
(* recommendations.py: freshness of a cached payload.  Ages are in minutes. *)

FRESH_TTL_HOURS == 120         \* 2.0 h
STALE_TTL_HOURS == 720         \* 12.0 h

\* a status that turns stale when the age reaches the fresh limit
CacheStatusStrict(age) ==
    IF age.none THEN "unavailable"
    ELSE IF age.val < FRESH_TTL_HOURS THEN "fresh"
    ELSE IF age.val < STALE_TTL_HOURS THEN "stale"
    ELSE "unavailable"

cache_status_from_age(age) ==
    IF age.none THEN "unavailable"
    ELSE IF age.val <= FRESH_TTL_HOURS THEN "fresh"
    ELSE IF age.val <= STALE_TTL_HOURS THEN "stale"
    ELSE "unavailable"

\* the ages explored: none, and from half an hour in the future to 15 h, by
\* quarters of an hour and one minute past each
Ages ==
    {None} \cup {Some(15 * k) : k \in -2..60} \cup {Some(15 * k + 1) : k \in -2..60}

InitStatus ==
    /\ pc = "status"
    /\ age_hours \in Ages
    /\ cache_status = "unavailable"
    /\ RankIdle /\ MergeIdle /\ RecIdle /\ LoadIdle /\ ProjIdle
    /\ CallsIdle /\ ClockIdle /\ WeatherIdle /\ EndpointIdle /\ PipeIdle

CacheStatusFromAge ==
    /\ pc = "status"
    /\ cache_status' = cache_status_from_age(age_hours)
    /\ pc' = "done"
    /\ UNCHANGED <<age_hours, rankVars, mergeVars, recVars, loadVars, projVars,
                   callVars, clockVars, weatherVars, endpointVars, pipeVars>>

NextStatus == CacheStatusFromAge

SpecStatus == InitStatus /\ [][NextStatus]_vars

\* C21: cache_status_from_age gives "fresh" for an age of at most 2 h, "stale"
\* for an age above 2 h and at most 12 h, and "unavailable" for an age above
\* 12 h or no age.
C21_StatusByAge ==
    pc = "done" =>
        /\ cache_status = "fresh" <=> (~age_hours.none /\ age_hours.val <= 120)
        /\ cache_status = "stale" <=>
               (~age_hours.none /\ age_hours.val > 120 /\ age_hours.val <= 720)
        /\ cache_status = "unavailable" <=> (age_hours.none \/ age_hours.val > 720)

\* an age of exactly 2 h is fresh
C21_Witness ==
    pc = "done" /\ age_hours = Some(120) /\ cache_status = "fresh"

----------------------------------------------------------------------------
(* shadow_engine.py: ranking calls in flight at once over one index bundle, *)
(* each advancing one cafe at a time                                        *)

\* max_shadow_search + 3.0
SearchRadius(index_bundle, sun) ==
    (IF sun.tan_milli > 0
     THEN Min(MAX_SHADOW_LENGTH, (index_bundle.max_height_m * 1000) \div sun.tan_milli)
     ELSE MAX_SHADOW_LENGTH) + SEARCH_MARGIN

\* locals that take over the shadows the other calls hold
CallLocalsShared(others) ==
    IF others = <<>> THEN NewEval
    ELSE [NewEval EXCEPT !.shadow_cache = others[Len(others)].shadow_cache]

\* results = [] and shadow_cache = {} are locals of the call, whatever the
\* evaluations of the other calls hold
CallLocals(others) == NewEval

NewCall(t) ==
    [t |-> t, state |-> "new", at |-> 0, ev |-> NewEval, out |-> <<>>, raised |-> FALSE]

OtherEvals(i) ==
    LET js == SelectSeq(<<1, 2>>, LAMBDA j : j # i /\ calls[j].state # "new")
    IN  [k \in DOMAIN js |-> calls[js[k]].ev]

\* the pairs of instants of two calls
InstantPairs ==
    { <<"noon", "low">>, <<"low", "noon">>, <<"noon", "night">>, <<"threshold", "noon">> }

InitCalls ==
    /\ pc = "calls"
    /\ cafes \in SeqsUpTo(CafePool, MaxCafes)
    /\ buildings \in BuildingLists
    /\ cloud_cover_pct = 0 /\ limit = LimitNone /\ dt = "noon"
    /\ results = <<>> /\ raised = FALSE /\ projected = <<>>
    /\ shared_bundle = build_building_index(buildings)
    /\ \E ts \in InstantPairs : calls = <<NewCall(ts[1]), NewCall(ts[2])>>
    /\ MergeIdle /\ RecIdle /\ LoadIdle /\ ProjIdle
    /\ StatusIdle /\ ClockIdle /\ WeatherIdle /\ EndpointIdle /\ PipeIdle

\* entry of compute_sunny_cafes: `if not cafes: return []`, then the locals
StartCall(i) ==
    /\ calls[i].state = "new"
    /\ calls' = [calls EXCEPT ![i] =
                    IF cafes = <<>> THEN [@ EXCEPT !.state = "returned"]
                    ELSE [@ EXCEPT !.state = "running", !.ev = CallLocals(OtherEvals(i))]]

\* one pass of `for feature in cafes:`
StepCall(i) ==
    /\ calls[i].state = "running"
    /\ calls[i].at < Len(cafes) /\ ~calls[i].ev.raised
    /\ LET sun == get_sun_position(calls[i].t)
           f   == cafes[calls[i].at + 1]
       IN  calls' = [calls EXCEPT ![i].at = @ + 1,
                                  ![i].ev =
                        IF IsLowSun(sun) THEN LowSunStep(f, sun, cloud_cover_pct, @)
                        ELSE CafeStep(f, shared_bundle, sun, cloud_cover_pct,
                                      SearchRadius(shared_bundle, sun), @)]

\* the exception leaving the call, or the sort, the cut and the return
ReturnCall(i) ==
    /\ calls[i].state = "running"
    /\ calls[i].at = Len(cafes) \/ calls[i].ev.raised
    /\ LET ev == calls[i].ev
       IN  calls' = [calls EXCEPT
               ![i].state  = "returned",
               ![i].raised = ev.raised,
               ![i].out    =
                   IF ev.raised THEN <<>>
                   ELSE IF IsLowSun(get_sun_position(calls[i].t))
                        THEN Truncate(ev.results, EffectiveLimit(limit))
                        ELSE Truncate(SortDesc(ev.results, 1, Len(ev.results), <<>>),
                                      EffectiveLimit(limit))]

NextCalls ==
    /\ pc = "calls"
    /\ \E i \in 1..2 : StartCall(i) \/ StepCall(i) \/ ReturnCall(i)
    /\ UNCHANGED <<pc, rankVars, shared_bundle, mergeVars, recVars, loadVars, projVars,
                   statusVars, clockVars, weatherVars, endpointVars, pipeVars>>

SpecCalls == InitCalls /\ [][NextCalls]_vars

\* what the call at instant t returns when it runs alone
Alone(t) == compute_sunny_cafes(cafes, buildings, t, cloud_cover_pct, limit)

\* C23: ranking calls leave the index bundle as it was built, and however two
\* calls at different instants are interleaved (one after the other included),
\* each returns, or raises, exactly as it does when run alone: no shadow of one
\* call is seen by the other.
C23_CallsIsolated ==
    pc = "calls" =>
        /\ shared_bundle = build_building_index(buildings)
        /\ \A i \in DOMAIN calls :
               calls[i].state = "returned" =>
                   /\ calls[i].raised = Alone(calls[i].t).raised
                   /\ calls[i].out = Alone(calls[i].t).results

\* both calls returned, each having projected a shadow of the same building for
\* its own sun, with different rankings
C23_Witness ==
    /\ pc = "calls"
    /\ \A i \in DOMAIN calls : calls[i].state = "returned" /\ ~calls[i].raised
    /\ calls[1].ev.shadow_cache # <<>> /\ calls[2].ev.shadow_cache # <<>>
    /\ calls[1].t # calls[2].t
    /\ calls[1].out # calls[2].out
    /\ Len(calls[1].out) = 2

----------------------------------------------------------------------------
(* weather_router.py: the provider fetchers, their disk cache and the router. *)
(* Times are minutes; a cached series is known by the instant it was fetched. *)

MaxTicks == 4

\* what the clock reads after k advances: 2 h, 2 h 1 min, 12 h and 12 h 1 min
\* after the start, then every 10 h
ClockReading(k) ==
    CASE k = 0 -> 0 [] k = 1 -> 120 [] k = 2 -> 121 [] k = 3 -> 720
      [] OTHER -> 721 + 600 * (k - 4)

\* CITY_CONFIGS["copenhagen"].provider_order
provider_order == <<"dmi", "met_no", "legacy_open_meteo">>
Providers == Range(provider_order)

\* a cache file: {"fetched_at": ..., "series": ...}
CacheEntry(fetched_at) == [none |-> FALSE, fetched_at |-> fetched_at]

_load_cache(entry, now) ==
    IF entry.none THEN None
    ELSE LET age_h == now - entry.fetched_at
         IN  IF age_h > STALE_TTL_HOURS THEN None
             ELSE [none |-> FALSE, fetched_at |-> entry.fetched_at, age_hours |-> age_h]

_as_series_result(provider, fetched_at, data_status, freshness_hours) ==
    [provider_used   |-> provider,
     fallback_used   |-> FALSE,
     data_status     |-> data_status,
     freshness_hours |-> freshness_hours,
     fetched_at      |-> fetched_at]

Fetched(result, entry, requested) ==
    [raised |-> FALSE, result |-> result, entry |-> entry, requested |-> requested]
FetchRaised(entry) ==
    [raised |-> TRUE, result |-> None, entry |-> entry, requested |-> TRUE]

\* a fetcher for which an entry aged exactly 2 h is no longer fresh
FetchSeriesStrict(provider, entry, now, net_ok) ==
    LET cached == _load_cache(entry, now)
    IN  IF ~cached.none /\ cached.age_hours < FRESH_TTL_HOURS
        THEN Fetched(_as_series_result(provider, cached.fetched_at, "fresh",
                                       cached.age_hours), entry, FALSE)
        ELSE IF net_ok
        THEN Fetched(_as_series_result(provider, now, "fresh", 0), CacheEntry(now), TRUE)
        ELSE IF ~cached.none /\ cached.age_hours <= STALE_TTL_HOURS
        THEN Fetched(_as_series_result(provider, cached.fetched_at, "stale",
                                       cached.age_hours), entry, TRUE)
        ELSE FetchRaised(entry)

\* the body the three fetchers share: the cache, then the network (net_ok: the
\* request and the parsing of its answer succeed), then the cache again
FetchSeries(provider, entry, now, net_ok) ==
    LET cached == _load_cache(entry, now)
    IN  IF ~cached.none /\ cached.age_hours <= FRESH_TTL_HOURS
        THEN Fetched(_as_series_result(provider, cached.fetched_at, "fresh",
                                       cached.age_hours), entry, FALSE)
        ELSE IF net_ok
        THEN Fetched(_as_series_result(provider, now, "fresh", 0), CacheEntry(now), TRUE)
        ELSE IF ~cached.none /\ cached.age_hours <= STALE_TTL_HOURS
        THEN Fetched(_as_series_result(provider, cached.fetched_at, "stale",
                                       cached.age_hours), entry, TRUE)
        ELSE FetchRaised(entry)

_fetch_dmi_series(entry, now, net_ok)    == FetchSeries("dmi", entry, now, net_ok)
_fetch_met_no_series(entry, now, net_ok) == FetchSeries("met_no", entry, now, net_ok)
_fetch_legacy_series(entry, now, net_ok) ==
    FetchSeries("legacy_open_meteo", entry, now, net_ok)

fetchers == {"dmi", "met_no", "legacy_open_meteo"}

Fetcher(provider, entry, now, net_ok) ==
    CASE provider = "dmi"               -> _fetch_dmi_series(entry, now, net_ok)
      [] provider = "met_no"            -> _fetch_met_no_series(entry, now, net_ok)
      [] provider = "legacy_open_meteo" -> _fetch_legacy_series(entry, now, net_ok)

\* a result handed on as the fetcher made it
MarkFallbackKept(result, fallback_used, index) == result

\* result.fallback_used = fallback_used or index > 0 (index counted from 1 here)
MarkFallback(result, fallback_used, index) ==
    [result EXCEPT !.fallback_used = fallback_used \/ index > 1]

FetchRecord(provider, before, net_ok, r) ==
    [provider  |-> provider,
     before    |-> before,
     requested |-> r.requested,
     net_ok    |-> r.requested /\ net_ok,
     raised    |-> r.raised,
     result    |-> r.result]

\* for index, provider in enumerate(city.provider_order): ...
RECURSIVE TryProviders(_, _, _, _, _, _)
TryProviders(index, cache, now, net, fallback_used, log) ==
    IF index > Len(provider_order)
    THEN [raised |-> TRUE, result |-> None, cache |-> cache, fetches |-> log]
    ELSE LET provider == provider_order[index]
         IN  IF provider \notin fetchers
             THEN TryProviders(index + 1, cache, now, net, fallback_used, log)
             ELSE LET r      == Fetcher(provider, cache[provider], now, net[provider])
                      cache2 == [cache EXCEPT ![provider] = r.entry]
                      log2   == Append(log, FetchRecord(provider, cache[provider],
                                                        net[provider], r))
                  IN  IF ~r.raised
                      THEN [raised  |-> FALSE,
                            result  |-> MarkFallback(r.result, fallback_used, index),
                            cache   |-> cache2,
                            fetches |-> log2]
                      ELSE TryProviders(index + 1, cache2, now, net, TRUE, log2)

get_cloud_cover_series(cache, now, net) == TryProviders(1, cache, now, net, FALSE, <<>>)

InitWeather ==
    /\ pc = "weather"
    /\ service_clock = ClockReading(0) /\ ticks = 0
    /\ provider_cache = [p \in Providers |-> None]
    /\ cache_before = provider_cache
    /\ called_at = 0 /\ fetches = <<>> /\ series_result = None
    /\ RankIdle /\ MergeIdle /\ RecIdle /\ LoadIdle /\ ProjIdle
    /\ StatusIdle /\ CallsIdle /\ EndpointIdle /\ PipeIdle

\* time passes
Tick ==
    /\ pc \in {"weather", "serve"}
    /\ ticks < MaxTicks
    /\ ticks' = ticks + 1
    /\ service_clock' = ClockReading(ticks + 1)
    /\ UNCHANGED <<pc, rankVars, mergeVars, recVars, loadVars, projVars, statusVars,
                   callVars, weatherVars, endpointVars, pipeVars>>

GetCloudCoverSeries ==
    /\ pc = "weather"
    /\ \E net \in [Providers -> BOOLEAN] :
         \E out \in {get_cloud_cover_series(provider_cache, service_clock, net)} :
           /\ provider_cache' = out.cache
           /\ cache_before'   = provider_cache
           /\ called_at'      = service_clock
           /\ fetches'        = out.fetches
           /\ series_result'  = [raised |-> out.raised, result |-> out.result]
    /\ UNCHANGED <<pc, rankVars, mergeVars, recVars, loadVars, projVars,
                   statusVars, callVars, clockVars, endpointVars, pipeVars>>

NextWeather == Tick \/ GetCloudCoverSeries

SpecWeather == InitWeather /\ [][NextWeather]_vars

Called == pc = "weather" /\ fetches # <<>>

\* C26: the providers are tried in the configured order; the result is that of
\* the first one that succeeds and no later provider is called; fallback_used is
\* true exactly when an earlier provider failed; the call raises only when every
\* configured provider has failed.
C26_FirstSuccessInOrder ==
    Called =>
        /\ Len(fetches) <= Len(provider_order)
        /\ \A k \in DOMAIN fetches :
               /\ fetches[k].provider = provider_order[k]
               /\ k < Len(fetches) => fetches[k].raised
        /\ series_result.raised <=>
               (Len(fetches) = Len(provider_order)
                    /\ \A k \in DOMAIN fetches : fetches[k].raised)
        /\ ~series_result.raised =>
               LET last == fetches[Len(fetches)]
               IN  /\ ~last.raised
                   /\ series_result.result.provider_used = last.provider
                   /\ series_result.result.data_status = last.result.data_status
                   /\ series_result.result.fetched_at = last.result.fetched_at
                   /\ series_result.result.fallback_used
                          <=> \E k \in DOMAIN fetches : fetches[k].raised

\* the first provider failed and the second answered
C26_Witness ==
    /\ Called /\ ~series_result.raised
    /\ Len(fetches) = 2 /\ fetches[1].raised
    /\ series_result.result.provider_used = "met_no"
    /\ series_result.result.fallback_used

AgedAtMost(entry, minutes) ==
    ~entry.none /\ called_at - entry.fetched_at <= minutes

\* C27: a provider fetch that finds a cache entry aged at most 2 h returns it as
\* fresh without a network request; otherwise it makes the request and, when
\* that succeeds, overwrites the cache and returns a fresh result; when that
\* fails it returns as stale a cache entry aged at most 12 h and raises when
\* there is none; a failed fetch leaves the cache as it was.
C27_FreshnessRule ==
    Called =>
        /\ \A k \in DOMAIN fetches :
               LET f == fetches[k]
                   e == cache_before[f.provider]
                   now == provider_cache[f.provider]
               IN  /\ AgedAtMost(e, 120) =>
                          /\ ~f.requested /\ ~f.raised
                          /\ f.result.data_status = "fresh"
                          /\ f.result.fetched_at = e.fetched_at
                          /\ now = e
                   /\ ~AgedAtMost(e, 120) =>
                          /\ f.requested
                          /\ f.net_ok =>
                                 /\ ~f.raised
                                 /\ f.result.data_status = "fresh"
                                 /\ f.result.fetched_at = called_at
                                 /\ now = CacheEntry(called_at)
                          /\ ~f.net_ok =>
                                 /\ now = e
                                 /\ AgedAtMost(e, 720) =>
                                        /\ ~f.raised
                                        /\ f.result.data_status = "stale"
                                        /\ f.result.fetched_at = e.fetched_at
                                 /\ ~AgedAtMost(e, 720) => f.raised
        /\ \A p \in Providers :
               (\A k \in DOMAIN fetches : fetches[k].provider # p) =>
                   provider_cache[p] = cache_before[p]

\* the first provider has no entry and fails; the second fails too and its
\* entry, aged exactly 12 h, is returned as stale and left in the cache
C27_Witness ==
    /\ Called /\ Len(fetches) = 2
    /\ fetches[1].requested /\ fetches[1].raised /\ fetches[1].before.none
    /\ fetches[2].requested /\ ~fetches[2].net_ok /\ ~fetches[2].raised
    /\ fetches[2].result.data_status = "stale"
    /\ called_at - fetches[2].before.fetched_at = 720
    /\ provider_cache = cache_before

\* an entry aged exactly 2 h is returned as fresh and no request is made
C27_WitnessFresh ==
    /\ Called /\ Len(fetches) = 1
    /\ ~fetches[1].requested
    /\ called_at - fetches[1].before.fetched_at = 120
    /\ series_result.result.data_status = "fresh"

----------------------------------------------------------------------------
(* api.py: the sun-outlook and favorites endpoints and their response cache. *)
(* A payload keeps its data_status, fallback_used and freshness, the instant  *)
(* it was generated at, and whether its lists are empty.                      *)

Endpoints == {"outlook", "favorites"}

\* what get_cloud_cover_series gives the computation: a fresh series, a fresh
\* series of a later provider, a stale series, or an exception
WeatherOutcomes ==
    { [raised |-> TRUE,  result |-> None],
      [raised |-> FALSE, result |-> MarkFallback(_as_series_result("dmi", 0, "fresh", 0),
                                                 FALSE, 1)],
      [raised |-> FALSE, result |-> MarkFallback(_as_series_result("met_no", 0, "fresh", 0),
                                                 TRUE, 2)],
      [raised |-> FALSE, result |-> MarkFallback(_as_series_result("dmi", 0, "stale", 600),
                                                 FALSE, 1)] }

\* the payload of _compute_cafe_outlook_payload and of favorites_recommendations
ComputedPayload(weather, now) ==
    [data_status     |-> weather.data_status,
     freshness_hours |-> Some(weather.freshness_hours),
     fallback_used   |-> weather.fallback_used,
     empty           |-> FALSE,
     generated_at    |-> now,
     error           |-> "none"]

UnavailablePayload(now, error) ==
    [data_status     |-> "unavailable",
     freshness_hours |-> None,
     fallback_used   |-> FALSE,
     empty           |-> TRUE,
     generated_at    |-> now,
     error           |-> error]

\* a cache file: {"fetched_at": ..., "payload": ...}
write_cache(payload, now) == [none |-> FALSE, fetched_at |-> now, payload |-> payload]

\* a cache read that returns an entry of any age
ReadCacheAnyAge(entry, now) ==
    IF entry.none THEN None
    ELSE [none |-> FALSE, age_hours |-> now - entry.fetched_at, payload |-> entry.payload]

read_cache(entry, now) ==
    IF entry.none THEN None
    ELSE LET age_h == now - entry.fetched_at
         IN  IF age_h > STALE_TTL_HOURS THEN None
             ELSE [none |-> FALSE, age_hours |-> age_h, payload |-> entry.payload]

_with_cache_status(payload, age) ==
    [payload EXCEPT !.data_status     = cache_status_from_age(Some(age)),
                    !.freshness_hours = Some(age)]

\* what a handler leaves: its response, the cache entry, and the data_status of
\* the weather series behind the payload it answers with
Answer(body, entry, weather_status) ==
    [raised |-> FALSE, body |-> body, entry |-> entry, weather_status |-> weather_status]

\* the except branch of both handlers
Fallback(cached, now, error) ==
    IF ~cached.none
    THEN [_with_cache_status(cached.payload, cached.age_hours)
              EXCEPT !.data_status = "stale", !.fallback_used = TRUE,
                     !.error = "using cached"]
    ELSE UnavailablePayload(now, error)

cafe_sun_outlook(entry, now, cafe_found, outcome) ==
    LET cached == read_cache(entry, now)
    IN  IF ~cached.none /\ cached.age_hours <= FRESH_TTL_HOURS
        THEN Answer(_with_cache_status(cached.payload, cached.age_hours), entry,
                    cached.payload.data_status)
        ELSE IF ~cafe_found
        THEN Answer(UnavailablePayload(now, "cafe not found"), entry, "none")
        ELSE IF ~outcome.raised
        THEN LET payload == ComputedPayload(outcome.result, now)
             IN  Answer(payload, write_cache(payload, now), payload.data_status)
        ELSE Answer(Fallback(cached, now, "outlook unavailable"), entry,
                    IF cached.none THEN "none" ELSE cached.payload.data_status)

favorites_recommendations(entry, now, outcome) ==
    LET cached == read_cache(entry, now)
    IN  IF ~cached.none /\ cached.age_hours <= FRESH_TTL_HOURS
        THEN Answer(_with_cache_status(cached.payload, cached.age_hours), entry,
                    cached.payload.data_status)
        ELSE IF ~outcome.raised
        THEN LET payload == ComputedPayload(outcome.result, now)
             IN  Answer(payload, write_cache(payload, now), payload.data_status)
        ELSE Answer(Fallback(cached, now, "recommendations unavailable"), entry,
                    IF cached.none THEN "none" ELSE cached.payload.data_status)

InitServe ==
    /\ pc = "serve"
    /\ service_clock = ClockReading(0) /\ ticks = 0
    /\ response_cache = [e \in Endpoints |-> None]
    /\ request = None /\ response = None
    /\ RankIdle /\ MergeIdle /\ RecIdle /\ LoadIdle /\ ProjIdle
    /\ StatusIdle /\ CallsIdle /\ WeatherIdle /\ PipeIdle

Served(name, cafe_found, outcome, answer) ==
    /\ request' = [none |-> FALSE, endpoint |-> name, at |-> service_clock,
                   cache_before |-> response_cache, cafe_found |-> cafe_found,
                   outcome |-> outcome]
    /\ response' = [none |-> FALSE, raised |-> answer.raised, body |-> answer.body,
                    weather_status |-> answer.weather_status]
    /\ response_cache' = [response_cache EXCEPT ![name] = answer.entry]
    /\ UNCHANGED <<pc, rankVars, mergeVars, recVars, loadVars, projVars, statusVars,
                   callVars, clockVars, weatherVars, pipeVars>>

CafeSunOutlook ==
    /\ pc = "serve"
    /\ \E cafe_found \in BOOLEAN, outcome \in WeatherOutcomes :
           Served("outlook", cafe_found, outcome,
                  cafe_sun_outlook(response_cache["outlook"], service_clock, cafe_found,
                                   outcome))

FavoritesRecommendations ==
    /\ pc = "serve"
    /\ \E outcome \in WeatherOutcomes :
           Served("favorites", TRUE, outcome,
                  favorites_recommendations(response_cache["favorites"], service_clock,
                                            outcome))

NextServe == Tick \/ CafeSunOutlook \/ FavoritesRecommendations

SpecServe == InitServe /\ [][NextServe]_vars

Answered     == pc = "serve" /\ ~request.none
EntryBefore  == request.cache_before[request.endpoint]
AgeBefore    == request.at - EntryBefore.fetched_at
\* the request went as far as the computation
Recomputed28 ==
    /\ ~(~EntryBefore.none /\ AgeBefore <= 120)
    /\ request.endpoint = "outlook" => request.cafe_found

\* C28: neither endpoint lets a failure of the computation through: when the
\* computation fails and a cached payload aged at most 12 h exists, that payload
\* is returned with data_status "stale" and fallback_used true; when none exists
\* the response is "unavailable" with empty lists; and the response cache is
\* written only after a computation that succeeded.
C28_FailureFallsBack ==
    Answered =>
        /\ ~response.raised
        /\ (Recomputed28 /\ request.outcome.raised) =>
               IF ~EntryBefore.none /\ AgeBefore <= 720
               THEN /\ response.body.data_status = "stale"
                    /\ response.body.fallback_used
                    /\ ~response.body.empty
                    /\ response.body.generated_at = EntryBefore.payload.generated_at
               ELSE /\ response.body.data_status = "unavailable"
                    /\ response.body.empty
        /\ \A e \in Endpoints :
               response_cache[e] # request.cache_before[e] =>
                   /\ e = request.endpoint
                   /\ Recomputed28 /\ ~request.outcome.raised
                   /\ response_cache[e].fetched_at = request.at
                   /\ response_cache[e].payload = response.body

\* a payload cached 12 h ago answers a request whose computation fails
C28_Witness ==
    /\ Answered /\ Recomputed28 /\ request.outcome.raised
    /\ ~EntryBefore.none /\ AgeBefore = 720
    /\ response.body.data_status = "stale" /\ response.body.fallback_used
    /\ response_cache = request.cache_before

\* an entry aged 12 h 1 min is no payload to fall back on
C28_WitnessUnavailable ==
    /\ Answered /\ Recomputed28 /\ request.outcome.raised
    /\ ~EntryBefore.none /\ AgeBefore = 721
    /\ response.body.data_status = "unavailable" /\ response.body.empty

\* C29: a response is reported "fresh" only if the weather series its payload
\* was computed from was fresh: a payload computed from a stale series is never
\* served from the response cache as "fresh".
C29_FreshOnlyFromFreshWeather ==
    Answered =>
        (response.body.data_status = "fresh" => response.weather_status = "fresh")

----------------------------------------------------------------------------
(* api.py, recommendations.py: the multi-day outlook of one cafe, hour by hour *)

HEAVY_CLOUD_THRESHOLD == 90

\* a classification by the score alone, from 5 points on
ClassifyLenient(row, cloud) ==
    IF row.sunny_score >= 550 THEN "sunny"
    ELSE IF row.sunny_score >= 50 THEN "partial"
    ELSE "shaded"

\* sunny_score is in tenths of a point
classify_condition(row, cloud) ==
    IF row.sun_elevation_deg <= 0 THEN "shaded"
    ELSE IF cloud >= HEAVY_CLOUD_THRESHOLD THEN "shaded"
    ELSE IF row.sunny_score >= 550 THEN "sunny"
    ELSE IF row.sunny_score >= 200 THEN "partial"
    ELSE "shaded"

_fallback_row(cafe_feature, cloud_cover) ==
    [sunny_score |-> 0, sun_elevation_deg |-> 1, cloud_cover_pct |-> cloud_cover]

\* an hour of the range: its instant and the cloud cover the series has for it,
\* if any
Hour(t, cloud) == [t |-> t, cloud |-> cloud]

\* weather_cloud_by_hour.get(dt, 50.0)
CloudOf(hour) == IF hour.cloud.none THEN 50 ELSE hour.cloud.val

\* one pass of the loop of _build_hourly_for_cafe
HourRow(cafe_feature, building_items, hour, time_utc) ==
    Only({ IF ev.raised THEN [raised |-> TRUE, row |-> None]
           ELSE [raised |-> FALSE,
                 row    |-> HourlyRow(IsoFormat(time_utc),
                                classify_condition(
                                    IF ev.results # <<>> THEN ev.results[1]
                                    ELSE _fallback_row(cafe_feature, CloudOf(hour)),
                                    CloudOf(hour)))]
           : ev \in {compute_sunny_cafes(<<cafe_feature>>, building_items, hour.t,
                                         CloudOf(hour), LimitInt(1))} })

RECURSIVE _build_hourly_for_cafe(_, _, _, _, _)
_build_hourly_for_cafe(cafe_feature, building_items, hrs, start_utc, rows) ==
    IF Len(rows) = Len(hrs) THEN [raised |-> FALSE, rows |-> rows]
    ELSE Only({ IF r.raised THEN [raised |-> TRUE, rows |-> <<>>]
                ELSE _build_hourly_for_cafe(cafe_feature, building_items, hrs, start_utc,
                                            Append(rows, r.row))
                : r \in {HourRow(cafe_feature, building_items, hrs[Len(rows) + 1],
                                 start_utc + 60 * Len(rows))} })

\* hourly and windows of _compute_cafe_outlook_payload
_compute_cafe_outlook_payload(cafe_feature, building_items, hrs, start_utc, min_dur) ==
    Only({ [raised  |-> h.raised,
            hourly  |-> h.rows,
            windows |-> IF h.raised THEN <<>> ELSE merge_windows(h.rows, min_dur)]
           : h \in {_build_hourly_for_cafe(cafe_feature, building_items, hrs, start_utc,
                                           <<>>)} })

HourKinds ==
    { Hour("noon", Some(0)), Hour("noon", Some(90)), Hour("noon", None),
      Hour("threshold", Some(0)), Hour("low", Some(0)), Hour("night", Some(0)) }

InitOutlook ==
    /\ pc = "outlook"
    /\ cafes \in {<<CafeAlpha>>, <<CafeNowhere>>, <<CafeShort>>}
    /\ buildings \in {<<>>, <<SouthBlock>>, <<EastTower, SouthBlock>>}
    /\ hours \in SeqsUpTo(HourKinds, MaxRows)
    /\ min_duration_min = 30
    /\ hourly_rows = <<>> /\ windows = <<>>
    /\ dt = "noon" /\ cloud_cover_pct = 0 /\ limit = LimitUnset
    /\ results = <<>> /\ raised = FALSE /\ projected = <<>>
    /\ RecIdle /\ LoadIdle /\ ProjIdle
    /\ StatusIdle /\ CallsIdle /\ ClockIdle /\ WeatherIdle /\ EndpointIdle

ComputeCafeOutlook ==
    /\ pc = "outlook"
    /\ \E out \in {_compute_cafe_outlook_payload(cafes[1], buildings, hours, 540,
                                                 min_duration_min)} :
           /\ hourly_rows' = out.hourly
           /\ windows'     = out.windows
           /\ raised'      = out.raised
    /\ pc' = "done"
    /\ UNCHANGED <<cafes, buildings, dt, cloud_cover_pct, limit, results, projected,
                   min_duration_min, recVars, loadVars, projVars, svcVars>>

NextOutlook == ComputeCafeOutlook

SpecOutlook == InitOutlook /\ [][NextOutlook]_vars

Outlooked   == pc = "done" /\ ~raised /\ hours # <<>>
DarkHour(k) ==
    \/ get_sun_position(hours[k].t).elevation <= 2
    \/ (~hours[k].cloud.none /\ hours[k].cloud.val >= 90)

\* C30: in the outlook of a cafe, an hour with the sun at or below 2 degrees, or
\* with a cloud cover of 90 percent or more, is classified "shaded", and no
\* window returned by merge_windows contains such an hour.
C30_DarkHoursShaded ==
    Outlooked =>
        /\ Len(hourly_rows) = Len(hours)
        /\ \A k \in DOMAIN hours :
               DarkHour(k) =>
                   /\ hourly_rows[k].condition = "shaded"
                   /\ \A i \in DOMAIN windows : ~InWindow(k, windows[i])

\* a heavy-cloud hour and a threshold hour between sunny hours split the day
\* into windows around them
C30_Witness ==
    /\ Outlooked
    /\ Len(hours) = 4
    /\ hours[1] = Hour("noon", Some(0)) /\ hours[2] = Hour("noon", Some(90))
    /\ hours[3] = Hour("noon", None) /\ hours[4] = Hour("threshold", Some(0))
    /\ buildings = <<>> /\ cafes = <<CafeAlpha>>
    /\ Len(windows) = 2
    /\ hourly_rows[1].condition = "sunny" /\ hourly_rows[3].condition = "partial"

====
